---- MODULE Spec2Model ----
(***************************************************************************)
(* FHIR R4 -> STU3 transformer: the generic engine.                        *)
(*                                                                         *)
(* JSON values are modelled as tagged nodes [k, s, c]:                     *)
(*   k = "s"  a string, s its text as a sequence of tokens                 *)
(*   k = "o"  an object (ordered dict), c its entries [key, val]           *)
(*   k = "l"  a list, c its items as entries with key ""                   *)
(*   k = "n"  None / null                                                  *)
(*   k = "x"  not a value: the evaluation raised an exception              *)
(* A string is a sequence of tokens so that startswith() and replace()     *)
(* are computed on its parts and not assumed.                              *)
(***************************************************************************)
EXTENDS Integers, Sequences, FiniteSets, TLC

VARIABLES
    \* ---- transform_directories (batch run) ----
    input_dirs,        \* the input directories: [exists, files]
    resource_types,    \* the resource_types filter ({} = None)
    pc,                \* position in transform_directories
    all_input_files,   \* files collected by the first loop
    scan,              \* Phase 1: number of files already scanned
    practitioner_role_resources,  \* the PractitionerRole index
    next_file,         \* transformation loop: files already handled
    success_count, error_count, skipped_count,
    outcomes,          \* per handled file: "success" | "error" | "skipped"
    written,           \* output files written so far: [name, doc, from]
    \* ---- single-document pipeline, pass by pass ----
    stage,             \* "input","draft","cleaned","rewritten","output","none"
    src,               \* the R4 document as it was when the call started
    source_document,   \* the caller's document object as it is now
    tree,              \* the current tree
    prev,              \* the tree before the last pass
    idx,               \* the index handed to Phase 2
    unresolved_warnings, \* "Could not resolve ..." warnings logged so far
    data_loss_events,  \* "Data loss occurred" warnings logged so far
    \* ---- a rule set object ----
    rule_set,          \* its resource_type ("" while there is none)
    stats,             \* BaseTransformer.stats
    calls              \* transform_file calls since the statistics were new
                       \* or reset: [made, unloaded]

vars == <<input_dirs, resource_types, pc, all_input_files, scan,
          practitioner_role_resources, next_file, success_count, error_count,
          skipped_count, outcomes, written, stage, src, source_document, tree,
          prev, idx, unresolved_warnings, data_loss_events, rule_set, stats,
          calls>>

batchVars == <<input_dirs, resource_types, pc, all_input_files, scan,
               practitioner_role_resources, next_file, success_count,
               error_count, skipped_count, outcomes, written>>

passVars == <<stage, src, source_document, tree, prev, idx,
             unresolved_warnings, data_loss_events, rule_set, stats, calls>>

----------------------------------------------------------------------------
(* JSON values *)

S(tokens) == [k |-> "s", s |-> tokens, c |-> <<>>]
Str(t) == S(<<t>>)
NoneV == [k |-> "n", s |-> <<>>, c |-> <<>>]
TrueV == [k |-> "b", s |-> <<"true">>, c |-> <<>>]
RaiseV == [k |-> "x", s |-> <<>>, c |-> <<>>]
E(key, val) == [key |-> key, val |-> val]
O(entries) == [k |-> "o", s |-> <<>>, c |-> entries]

\* F applied to the value of v: v is evaluated once, before F
Then(v, F(_)) == CHOOSE y \in {F(x) : x \in {v}} : TRUE

L(items) ==
    Then(items, LAMBDA its :
        [k |-> "l", s |-> <<>>,
         c |-> [i \in 1..Len(its) |-> E("", its[i])]])

IsDict(v) == v.k = "o"
IsList(v) == v.k = "l"
IsStr(v) == v.k = "s"
IsNone(v) == v.k = "n"
Raised(v) == v.k = "x"

\* Python truthiness: None, "", {} and [] are falsy
Truthy(v) == /\ v.k \in {"s", "o", "l", "b"}
             /\ (v.k = "s" => v.s # <<>>)
             /\ (v.k \in {"o", "l"} => v.c # <<>>)

\* key in obj (obj a dict)
Has(obj, key) == /\ IsDict(obj)
                 /\ \E i \in 1..Len(obj.c) : obj.c[i].key = key

\* obj.get(key): None when absent
Get(obj, key) ==
    IF Has(obj, key)
    THEN obj.c[CHOOSE i \in 1..Len(obj.c) : obj.c[i].key = key].val
    ELSE NoneV

\* obj.get(key, '')
GetOrEmpty(obj, key) == IF Has(obj, key) THEN Get(obj, key) ELSE S(<<>>)

\* obj[key] = val: in place when the key exists, appended otherwise
SetKey(obj, key, val) ==
    Then(obj, LAMBDA o : Then(val, LAMBDA v :
        IF Has(o, key)
        THEN [o EXCEPT !.c = [i \in 1..Len(o.c) |->
                 IF o.c[i].key = key THEN E(key, v) ELSE o.c[i]]]
        ELSE [o EXCEPT !.c = Append(o.c, E(key, v))]))

\* {k: v for k, v in obj.items() if k != key}
DelKey(obj, key) ==
    Then(obj, LAMBDA o :
        [o EXCEPT !.c = SelectSeq(o.c, LAMBDA e : e.key # key)])

\* a node built from children of which one raised is itself a raise
Lift(node) ==
    Then(node, LAMBDA n :
        IF \E i \in 1..Len(n.c) : Raised(n.c[i].val) THEN RaiseV ELSE n)

\* an exception of a step ends the computation: F is not applied
Bind(v, F(_)) == Then(v, LAMBDA x : IF Raised(x) THEN RaiseV ELSE F(x))

\* str.startswith(prefix) for a one-token prefix
StartsWith(str, prefix) == Len(str) >= 1 /\ str[1] = prefix

\* str.replace(old, new) on tokens
RECURSIVE Replace(_, _, _)
Replace(str, old, new) ==
    IF str = <<>> THEN <<>>
    ELSE (IF Head(str) = old THEN new ELSE <<Head(str)>>)
         \o Replace(Tail(str), old, new)

\* str.replace(old, new) for an old of several tokens: the occurrences are
\* taken from the left and do not overlap
RECURSIVE ReplaceTokens(_, _, _)
ReplaceTokens(str, old, new) ==
    IF Len(str) < Len(old) THEN str
    ELSE IF SubSeq(str, 1, Len(old)) = old
    THEN new \o ReplaceTokens(SubSeq(str, Len(old) + 1, Len(str)), old, new)
    ELSE <<Head(str)>> \o ReplaceTokens(Tail(str), old, new)

\* all object nodes of a tree, at any depth
RECURSIVE Nodes(_)
Nodes(v) ==
    (IF IsDict(v) THEN {v} ELSE {})
    \cup UNION {Nodes(v.c[i].val) : i \in 1..Len(v.c)}

\* the paths (child positions) of a tree, and the subtree at a path
RECURSIVE Paths(_)
Paths(v) ==
    {<<>>} \cup UNION {{<<i>> \o p : p \in Paths(v.c[i].val)} : i \in 1..Len(v.c)}

RECURSIVE At(_, _)
At(v, p) == IF p = <<>> THEN v ELSE At(v.c[Head(p)].val, Tail(p))

----------------------------------------------------------------------------
(* BaseTransformer: the structural passes *)

PractitionerRolePrefix == "PractitionerRole/"
PractitionerRoleTag == <<"PractitionerRole">>
RoleRefUrl == <<"http://nictiz.nl/fhir/StructureDefinition/practitionerrole-reference">>
DeniedUrl == <<"http://hl7.org/fhir/StructureDefinition/patient-relatedPerson">>
CodeSpecR4 == <<"http://nictiz.nl/fhir/StructureDefinition/ext-CodeSpecification">>
CodeSpecStu3 == <<"http://nictiz.nl/fhir/StructureDefinition/code-specification">>
AddressTypeR4 == <<"http://nictiz.nl/fhir/StructureDefinition/ext-AddressInformation.AddressType">>
AddressTypeStu3 == <<"http://nictiz.nl/fhir/StructureDefinition/zib-AddressInformation-AddressType">>

\* copy of every field except 'type'
transform_reference(r4_reference) ==
    O(SelectSeq(r4_reference.c, LAMBDA e : e.key # "type"))

RECURSIVE clean_references_in_object(_)
clean_references_in_object(obj) ==
    IF IsDict(obj)
    THEN IF Has(obj, "reference") /\ Has(obj, "type")
         THEN transform_reference(obj)
         ELSE Lift([obj EXCEPT !.c = [i \in 1..Len(obj.c) |->
                  E(obj.c[i].key, clean_references_in_object(obj.c[i].val))]])
    ELSE IF IsList(obj)
    THEN Lift([obj EXCEPT !.c = [i \in 1..Len(obj.c) |->
                  E("", clean_references_in_object(obj.c[i].val))]])
    ELSE obj

_is_r4_specific_extension(url) == url \in {DeniedUrl}

apply_global_extension_url_mappings(url) ==
    LET mapped_url == IF url = CodeSpecR4 THEN CodeSpecStu3
                      ELSE IF url = AddressTypeR4 THEN AddressTypeStu3
                      ELSE url
    IN IF mapped_url = url
       THEN ReplaceTokens(ReplaceTokens(ReplaceTokens(url,
                <<"/", "R4", "/">>, <<"/", "STU3", "/">>),
                <<"/", "r4", "/">>, <<"/", "stu3", "/">>),
                <<"4.0">>, <<"3.0">>)
       ELSE mapped_url

RECURSIVE transform_extension_urls(_)

\* lines 298-300: the nested extensions of a kept extension
nested_extensions_rewritten(ext) ==
    IF Has(ext, "extension") /\ IsList(Get(ext, "extension"))
    THEN Lift(SetKey(ext, "extension",
                     transform_extension_urls(Get(ext, "extension"))))
    ELSE ext

\* lines 292-296: the url of a kept extension
url_rewritten(ext, original_url, new_url) ==
    IF new_url # original_url THEN SetKey(ext, "url", S(new_url)) ELSE ext

\* the body of transform_extension_urls' loop for an extension that is kept
transform_one_extension(ext) ==
    IF ~IsDict(ext) \/ ~IsStr(GetOrEmpty(ext, "url")) THEN RaiseV
    ELSE Then(url_rewritten(ext, GetOrEmpty(ext, "url").s,
                            apply_global_extension_url_mappings(
                                GetOrEmpty(ext, "url").s)),
              nested_extensions_rewritten)

\* line 285: the extension is skipped
extension_dropped(ext) ==
    /\ IsDict(ext)
    /\ IsStr(GetOrEmpty(ext, "url"))
    /\ _is_r4_specific_extension(GetOrEmpty(ext, "url").s)

transform_extension_urls(extensions) ==
    IF extensions.c = <<>> THEN L(<<>>)
    ELSE Lift(L(SelectSeq(
             [i \in 1..Len(extensions.c) |->
                 IF extension_dropped(extensions.c[i].val) THEN NoneV
                 ELSE transform_one_extension(extensions.c[i].val)],
             LAMBDA v : ~IsNone(v))))

\* variant of extension_key_replaced that keeps an emptied list
extension_key_kept(obj, transformed_extensions) ==
    IF Raised(transformed_extensions) THEN RaiseV
    ELSE SetKey(obj, "extension", transformed_extensions)

\* lines 254-258: keep the rewritten list, or remove an emptied one
extension_key_replaced(obj, transformed_extensions) ==
    IF Raised(transformed_extensions) THEN RaiseV
    ELSE IF Truthy(transformed_extensions)
    THEN SetKey(obj, "extension", transformed_extensions)
    ELSE DelKey(obj, "extension")

\* lines 250-258
own_extensions_rewritten(obj) ==
    IF Has(obj, "extension") /\ IsList(Get(obj, "extension"))
    THEN Then(transform_extension_urls(Get(obj, "extension")),
              LAMBDA transformed_extensions :
                  extension_key_replaced(obj, transformed_extensions))
    ELSE obj

RECURSIVE transform_extensions_in_object(_)

\* lines 260-264
extension_children_rewritten(obj) ==
    Lift([obj EXCEPT !.c = [i \in 1..Len(obj.c) |->
             E(obj.c[i].key, transform_extensions_in_object(obj.c[i].val))]])

transform_extensions_in_object(obj) ==
    IF IsDict(obj)
    THEN Bind(own_extensions_rewritten(obj), extension_children_rewritten)
    ELSE IF IsList(obj)
    THEN Lift([obj EXCEPT !.c = [i \in 1..Len(obj.c) |->
                  E("", transform_extensions_in_object(obj.c[i].val))]])
    ELSE obj

\* The passes return new dicts and lists, but not everywhere.
\* transform_reference (line 227) and ext.copy() (line 288) copy one level
\* only, so the children of such a copy are still the objects of the tree
\* the copy was taken from, and "obj['extension'] = transformed_extensions"
\* (line 256) assigns into the dict the pass was handed.  The objects of the
\* caller's document that the extension pass gets to in this way are changed
\* where they are.  rewritten_in_place(v, mode) is what an object v of the
\* caller's document holds after the extension pass visited its counterpart
\* in the cleaned draft, and whether the pass raised on the way (then the
\* objects after the raise are not visited).  mode says what the visited
\* counterpart is:
\*   "shared"          v itself
\*   "rebuilt"         the dict or list clean_references_in_object built
\*                     from v (a reference with a type: its one-level copy)
\*   "reference_copy"  transform_reference's copy of v, without 'type'
\*   "extension_copy"  a copy of v made by transform_extension_urls
\*   "copied_items", "rebuilt_items"   the rewritten list of the extension
\*                     list v of a copy / of a rebuilt dict: the items that
\*                     were not dropped are copies
\*   "skip"            nothing: v is not visited
IsReferenceWithType(v) == Has(v, "reference") /\ Has(v, "type")

\* how the value under key of a dict visited as mode is visited;
\* own_extensions: the dict's own extension list was "kept" (rewritten and
\* not empty), "emptied", or there is "none"
EntryMode(mode, key, own_extensions) ==
    IF key = "type" /\ mode = "reference_copy" THEN "skip"
    ELSE IF key = "extension" /\ own_extensions = "emptied" THEN "skip"
    ELSE IF key = "extension" /\ own_extensions = "kept" /\ mode # "shared"
    THEN (IF mode = "rebuilt" THEN "rebuilt_items" ELSE "copied_items")
    ELSE IF mode = "rebuilt" THEN "rebuilt" ELSE "shared"

\* how an item of a list visited as mode is visited
ItemMode(mode, item) ==
    IF mode \in {"shared", "rebuilt"} THEN mode
    ELSE IF extension_dropped(item) THEN "skip"
    ELSE IF mode = "copied_items" THEN "extension_copy" ELSE "rebuilt"

RECURSIVE rewritten_in_place(_, _)

\* the entries visited one after the other, up to the first that raises
RECURSIVE visited_in_order(_, _)
visited_in_order(entries, modes) ==
    IF entries = <<>> THEN [c |-> <<>>, x |-> FALSE]
    ELSE Then(rewritten_in_place(Head(entries).val, Head(modes)),
              LAMBDA r :
                  IF r.x
                  THEN [c |-> <<E(Head(entries).key, r.v)>> \o Tail(entries),
                        x |-> TRUE]
                  ELSE Then(visited_in_order(Tail(entries), Tail(modes)),
                            LAMBDA rest :
                                [c |-> <<E(Head(entries).key, r.v)>> \o rest.c,
                                 x |-> rest.x]))

\* lines 260-264 for a dict visited as mode
entries_visited(obj, mode, own_extensions) ==
    Then(visited_in_order(obj.c, [i \in 1..Len(obj.c) |->
                                     EntryMode(mode, obj.c[i].key,
                                               own_extensions)]),
         LAMBDA r : [v |-> [obj EXCEPT !.c = r.c], x |-> r.x])

\* lines 250-264 for a dict visited as mode
dict_rewritten_in_place(obj, mode) ==
    IF Has(obj, "extension") /\ IsList(Get(obj, "extension"))
    THEN Then(transform_extension_urls(Get(obj, "extension")),
              LAMBDA transformed_extensions :
                  IF Raised(transformed_extensions)
                  THEN [v |-> obj, x |-> TRUE]
                  ELSE IF ~Truthy(transformed_extensions)
                  THEN entries_visited(obj, mode, "emptied")
                  ELSE IF mode = "shared"
                  THEN entries_visited(
                           SetKey(obj, "extension", transformed_extensions),
                           mode, "kept")
                  ELSE entries_visited(obj, mode, "kept"))
    ELSE entries_visited(obj, mode, "none")

rewritten_in_place(v, mode) ==
    IF mode = "skip" \/ ~(IsDict(v) \/ IsList(v)) THEN [v |-> v, x |-> FALSE]
    ELSE IF IsList(v)
    THEN Then(visited_in_order(v.c, [i \in 1..Len(v.c) |->
                                        ItemMode(mode, v.c[i].val)]),
              LAMBDA r : [v |-> [v EXCEPT !.c = r.c], x |-> r.x])
    ELSE dict_rewritten_in_place(
             v, IF mode = "rebuilt" /\ IsReferenceWithType(v)
                THEN "reference_copy" ELSE mode)

----------------------------------------------------------------------------
(* BaseTransformer: PractitionerRole reference resolution (Phase 2) *)

EmptyIndex == [x \in {} |-> NoneV]

\* variant of IndexGet that falls back on some role of the index
IndexGetOrAnyRole(prr, id) ==
    IF id \in DOMAIN prr THEN prr[id]
    ELSE IF DOMAIN prr # {} THEN prr[CHOOSE other \in DOMAIN prr : TRUE]
    ELSE NoneV

\* practitioner_role_resources.get(id)
IndexGet(prr, id) == IF id \in DOMAIN prr THEN prr[id] ELSE NoneV

Unresolved == [raised |-> FALSE, ref |-> NoneV, display |-> NoneV]
ResolveRaised == [raised |-> TRUE, ref |-> NoneV, display |-> NoneV]

\* lines 408-410
practitioner_of(practitioner_data) ==
    IF ~IsDict(practitioner_data) THEN ResolveRaised
    ELSE [raised |-> FALSE,
          ref |-> Get(practitioner_data, "reference"),
          display |-> Get(practitioner_data, "display")]

\* line 407
practitioner_of_role(practitioner_role_resource) ==
    IF Truthy(practitioner_role_resource)
       /\ Has(practitioner_role_resource, "practitioner")
    THEN practitioner_of(Get(practitioner_role_resource, "practitioner"))
    ELSE Unresolved

\* lines 398-410: the practitioner the role resolves to,
\* [raised, ref, display]; ref and display are None when unresolved
resolve_practitioner(practitioner_role_ref, prr) ==
    IF ~(DOMAIN prr # {} /\ Truthy(practitioner_role_ref)) THEN Unresolved
    ELSE IF ~IsStr(practitioner_role_ref) THEN ResolveRaised
    ELSE practitioner_of_role(
             IndexGet(prr, Replace(practitioner_role_ref.s,
                                   PractitionerRolePrefix, <<>>)))

\* 'display' when the value is truthy
DisplayEntry(display) ==
    IF Truthy(display) THEN <<E("display", display)>> ELSE <<>>

\* variant of practitioner_role_extension that loses the original display
practitioner_role_extension_without_display(practitioner_role_ref, practitioner_role_display) ==
    O(<<E("url", S(RoleRefUrl)),
        E("valueReference", O(<<E("reference", practitioner_role_ref)>>))>>)

\* lines 425-432
practitioner_role_extension(practitioner_role_ref, practitioner_role_display) ==
    O(<<E("url", S(RoleRefUrl)),
        E("valueReference",
          O(<<E("reference", practitioner_role_ref)>>
            \o DisplayEntry(practitioner_role_display)))>>)

\* variant of stu3_reference that attaches the extension only when the role
\* was resolved
stu3_reference_extension_on_hit(practitioner_role_ref, practitioner_role_display, r) ==
    IF r.raised THEN RaiseV
    ELSE IF Truthy(r.ref)
    THEN O(<<E("reference", r.ref)>> \o DisplayEntry(r.display)
           \o <<E("extension",
                  L(<<practitioner_role_extension(
                          practitioner_role_ref,
                          practitioner_role_display)>>))>>)
    ELSE O(<<E("reference", practitioner_role_ref)>>
           \o DisplayEntry(practitioner_role_display))

\* lines 412-436
stu3_reference(practitioner_role_ref, practitioner_role_display, r) ==
    IF r.raised THEN RaiseV
    ELSE O((IF Truthy(r.ref)
            THEN <<E("reference", r.ref)>> \o DisplayEntry(r.display)
            ELSE <<E("reference", practitioner_role_ref)>>
                 \o DisplayEntry(practitioner_role_display))
           \o <<E("extension",
                  L(<<practitioner_role_extension(
                          practitioner_role_ref,
                          practitioner_role_display)>>))>>)

\* variant of role_reference_to_stu3 that keeps the other keys of the node
role_reference_to_stu3_keeping_keys(reference_obj, prr) ==
    Bind(Then(resolve_practitioner(GetOrEmpty(reference_obj, "reference"),
                                   prr),
              LAMBDA r : stu3_reference(
                             GetOrEmpty(reference_obj, "reference"),
                             GetOrEmpty(reference_obj, "display"), r)),
         LAMBDA built :
             [built EXCEPT !.c =
                 @ \o SelectSeq(reference_obj.c, LAMBDA e :
                          e.key \notin {"reference", "display",
                                         "extension"})])

\* lines 391-436: the STU3 structure built for a PractitionerRole reference
role_reference_to_stu3(reference_obj, prr) ==
    Then(resolve_practitioner(GetOrEmpty(reference_obj, "reference"), prr),
         LAMBDA r : stu3_reference(GetOrEmpty(reference_obj, "reference"),
                                   GetOrEmpty(reference_obj, "display"), r))

transform_practitioner_role_reference(reference_obj, prr) ==
    LET typ == Get(reference_obj, "type") IN
    IF IsStr(typ) /\ typ.s = PractitionerRoleTag
    THEN role_reference_to_stu3(reference_obj, prr)
    ELSE IF ~Has(reference_obj, "reference")
    THEN transform_reference(reference_obj)
    ELSE IF ~IsStr(Get(reference_obj, "reference")) THEN RaiseV
    ELSE IF StartsWith(Get(reference_obj, "reference").s, PractitionerRolePrefix)
    THEN role_reference_to_stu3(reference_obj, prr)
    ELSE transform_reference(reference_obj)

\* the test of lines 454-457: obj looks like a PractitionerRole reference
looks_like_role_reference(obj) ==
    /\ Has(obj, "reference")
    /\ \/ (IsStr(Get(obj, "type")) /\ Get(obj, "type").s = PractitionerRoleTag)
       \/ (IsStr(Get(obj, "reference"))
           /\ StartsWith(Get(obj, "reference").s, PractitionerRolePrefix))

RECURSIVE process_practitioner_role_references_in_object(_, _)
process_practitioner_role_references_in_object(obj, prr) ==
    IF IsDict(obj)
    THEN IF looks_like_role_reference(obj)
         THEN transform_practitioner_role_reference(obj, prr)
         ELSE Lift([obj EXCEPT !.c = [i \in 1..Len(obj.c) |->
                  E(obj.c[i].key,
                    process_practitioner_role_references_in_object(
                        obj.c[i].val, prr))]])
    ELSE IF IsList(obj)
    THEN Lift([obj EXCEPT !.c = [i \in 1..Len(obj.c) |->
                  E("", process_practitioner_role_references_in_object(
                            obj.c[i].val, prr))]])
    ELSE obj

\* ---- the warnings Phase 2 logs: [n |-> how many, x |-> it raised] ----
NoWarning == [n |-> 0, x |-> FALSE]

\* variant of warnings_of_role_reference that warns for every role reference
warnings_of_every_role_reference(reference_obj, prr) ==
    Then(resolve_practitioner(GetOrEmpty(reference_obj, "reference"), prr),
         LAMBDA r : [n |-> IF r.raised THEN 0 ELSE 1, x |-> r.raised])

\* lines 412-415: logger.warning when no practitioner reference was found
warnings_of_role_reference(reference_obj, prr) ==
    Then(resolve_practitioner(GetOrEmpty(reference_obj, "reference"), prr),
         LAMBDA r : [n |-> IF r.raised \/ Truthy(r.ref) THEN 0 ELSE 1,
                     x |-> r.raised])

\* lines 386-389, 437-439
warnings_of_reference(reference_obj, prr) ==
    IF Get(reference_obj, "type") = S(PractitionerRoleTag)
    THEN warnings_of_role_reference(reference_obj, prr)
    ELSE IF ~Has(reference_obj, "reference") THEN NoWarning
    ELSE IF ~IsStr(Get(reference_obj, "reference"))
    THEN [n |-> 0, x |-> TRUE]
    ELSE IF StartsWith(Get(reference_obj, "reference").s, PractitionerRolePrefix)
    THEN warnings_of_role_reference(reference_obj, prr)
    ELSE NoWarning

RECURSIVE warnings_logged(_, _)
RECURSIVE warnings_in_order(_, _)
\* the children are walked in order; a raise ends the walk
warnings_in_order(entries, prr) ==
    IF entries = <<>> THEN NoWarning
    ELSE Then(warnings_logged(Head(entries).val, prr),
              LAMBDA w :
                  IF w.x THEN w
                  ELSE Then(warnings_in_order(Tail(entries), prr),
                            LAMBDA rest : [n |-> w.n + rest.n, x |-> rest.x]))

\* lines 452-470
warnings_logged(obj, prr) ==
    IF IsDict(obj)
    THEN IF looks_like_role_reference(obj)
         THEN warnings_of_reference(obj, prr)
         ELSE warnings_in_order(obj.c, prr)
    ELSE IF IsList(obj) THEN warnings_in_order(obj.c, prr)
    ELSE NoWarning

----------------------------------------------------------------------------
(* Per-type rule sets.  The documents drawn below carry the keys             *)
(* resourceType, id, status, statusReason, lifecycleStatus, encounter,       *)
(* code, category, extension, contained, subject, sender and practitioner;   *)
(* the steps of a rule set that read other keys (meta, payload, performer,   *)
(* bodySite, target, achievementStatus, ...) leave such documents unchanged. *)

\* for field in fields: if field in r4: stu3[field] = r4[field]
RECURSIVE CopyFields(_, _, _)
CopyFields(r4, stu3, fields) ==
    IF fields = <<>> THEN stu3
    ELSE Then(IF Has(r4, Head(fields))
              THEN SetKey(stu3, Head(fields), Get(r4, Head(fields)))
              ELSE stu3,
              LAMBDA copied : CopyFields(r4, copied, Tail(fields)))

\* if old in r4: stu3[new] = r4[old]
Rename(r4, stu3, old, new) ==
    IF Has(r4, old) THEN SetKey(stu3, new, Get(r4, old)) ELSE stu3

\* a "for extension in r4['extension']: extension.get('url')" loop raises
\* on the first element that is not an object
ExtensionLoopRaises(exts) ==
    \/ IsNone(exts)
    \/ (IsStr(exts) /\ exts.s # <<>>)
    \/ (IsDict(exts) /\ exts.c # <<>>)
    \/ (IsList(exts) /\ \E i \in 1..Len(exts.c) : ~IsDict(exts.c[i].val))

\* the elements of an extension list whose url is the given one
ExtensionsWithUrl(exts, url) ==
    SelectSeq([i \in 1..Len(exts.c) |-> exts.c[i].val],
              LAMBDA e : Get(e, "url") = S(url))

\* the items of obj['extension'], none when the key is absent
ExtensionItems(obj) ==
    IF Has(obj, "extension")
    THEN [i \in 1..Len(Get(obj, "extension").c) |->
              Get(obj, "extension").c[i].val]
    ELSE <<>>

\* variant of rule_set_head that copies the id only when it is truthy
rule_set_head_truthy_id(r4, resource_type) ==
    CopyFields(r4,
               IF Truthy(Get(r4, "id"))
               THEN CopyFields(r4, O(<<E("resourceType", resource_type)>>),
                               <<"id">>)
               ELSE O(<<E("resourceType", resource_type)>>),
               <<"text", "contained">>)

\* resourceType, id, text and contained, as the rule sets start
rule_set_head(r4, resource_type) ==
    CopyFields(r4,
               CopyFields(r4, O(<<E("resourceType", resource_type)>>), <<"id">>),
               <<"text", "contained">>)

\* variant of structural_passes that skips the extension pass
structural_passes_cleaning_only(stu3) == clean_references_in_object(stu3)

\* the two structural passes that end every rule set
structural_passes(stu3) ==
    Bind(clean_references_in_object(stu3), transform_extensions_in_object)

\* try: ... except Exception: return None
TryOrNone(v) == Then(v, LAMBDA x : IF Raised(x) THEN NoneV ELSE x)

(* ---- Communication ---- *)
CommunicationDirect ==
    <<"identifier", "basedOn", "partOf", "category", "medium", "subject",
      "recipient", "sent", "received", "sender", "reasonCode",
      "reasonReference", "note">>
TopicUrl ==
    <<"http://hl7.org/fhir/3.0/StructureDefinition/extension-Communication.topic">>

\* variant of communication_status_and_not_done that maps "not-done" the
\* way the Procedure rule set does
communication_status_as_procedure(r4, stu3) ==
    IF ~Truthy(Get(r4, "status")) THEN stu3
    ELSE IF Get(r4, "status") = Str("not-done")
    THEN Rename(r4, SetKey(SetKey(stu3, "status", Str("suspended")),
                           "notDone", TrueV),
                "statusReason", "notDoneReason")
    ELSE SetKey(stu3, "status", Get(r4, "status"))

\* lines 85-104
communication_status_and_not_done(r4, stu3) ==
    IF ~Truthy(Get(r4, "status")) THEN stu3
    ELSE IF Get(r4, "status") = Str("not-done")
    THEN Rename(r4, SetKey(SetKey(stu3, "status", Str("completed")),
                           "notDone", Get(r4, "status")),
                "statusReason", "notDoneReason")
    ELSE SetKey(stu3, "status", Get(r4, "status"))

\* lines 122-128: the matching extension's value becomes the topic
topic_from(extension, stu3) ==
    IF Has(extension, "value")
    THEN SetKey(stu3, "topic", Get(extension, "value"))
    ELSE IF Has(extension, "valueReference")
    THEN SetKey(stu3, "topic", Get(extension, "valueReference"))
    ELSE IF Has(extension, "valueCodeableConcept")
    THEN SetKey(stu3, "topic", Get(extension, "valueCodeableConcept"))
    ELSE stu3

\* lines 120-130: the loop stops at the first topic extension; an element
\* before it that is not an object raises on extension.get
RECURSIVE topic_loop(_, _)
topic_loop(items, stu3) ==
    IF items = <<>> THEN stu3
    ELSE IF ~IsDict(Head(items)) THEN RaiseV
    ELSE IF Get(Head(items), "url") = S(TopicUrl)
    THEN topic_from(Head(items), stu3)
    ELSE topic_loop(Tail(items), stu3)

communication_topic_extension(r4, stu3) ==
    IF ~Has(r4, "extension") THEN stu3
    ELSE IF ~IsList(Get(r4, "extension"))
    THEN (IF ExtensionLoopRaises(Get(r4, "extension")) THEN RaiseV ELSE stu3)
    ELSE topic_loop(ExtensionItems(r4), stu3)

\* the per-type rules, before the structural passes
CommunicationRules(r4) ==
    LET head == rule_set_head(r4, Str("Communication"))
        s1 == Rename(r4, head, "instantiatesCanonical", "definition")
        s2 == communication_status_and_not_done(r4, s1)
        s3 == Rename(r4, s2, "encounter", "context")
    IN Bind(communication_topic_extension(r4, s3),
            LAMBDA s4 : CopyFields(r4, s4, CommunicationDirect))

CommunicationTransformer(r4) ==
    IF Get(r4, "resourceType") # Str("Communication") THEN NoneV
    ELSE TryOrNone(Bind(CommunicationRules(r4), structural_passes))

(* ---- Goal ---- *)
GoalFieldMappings ==
    <<"identifier", "category", "priority", "description", "subject",
      "statusDate", "statusReason", "expressedBy", "addresses", "note",
      "outcomeCode", "outcomeReference">>
GoalDirectStatus ==
    {"proposed", "planned", "accepted", "on-hold", "cancelled",
     "entered-in-error", "rejected"}
EncounterReferenceUrl ==
    <<"https://fhir.iknl.nl/fhir/StructureDefinition/ext-EncounterReference">>

\* BaseTransformer.transform
base_transform(r4) ==
    CopyFields(r4, O(<<E("resourceType", Get(r4, "resourceType"))>>),
               <<"id", "implicitRules", "language", "text">>)

\* lines 76-83
goal_lifecycle_status(lifecycle_status, stu3) ==
    IF ~Truthy(lifecycle_status) THEN stu3
    ELSE IF \E t \in GoalDirectStatus : lifecycle_status = Str(t)
    THEN SetKey(stu3, "status", lifecycle_status)
    ELSE IF lifecycle_status = Str("active")
    THEN SetKey(stu3, "status", Str("in-progress"))
    ELSE IF lifecycle_status = Str("completed")
    THEN SetKey(stu3, "status", Str("achieved"))
    ELSE stu3

\* lines 102-104
goal_default_status(stu3) ==
    IF Has(stu3, "status") THEN stu3
    ELSE SetKey(stu3, "status", Str("planned"))

goal_status_fields(r4, stu3) ==
    Then(goal_lifecycle_status(Get(r4, "lifecycleStatus"), stu3),
         goal_default_status)

\* lines 172-178
extensions_appended(stu3, found) ==
    IF found = <<>> THEN stu3
    ELSE SetKey(stu3, "extension", L(ExtensionItems(stu3) \o found))

goal_encounter_reference_extension(r4, stu3) ==
    IF ~Has(r4, "extension") THEN stu3
    ELSE IF ExtensionLoopRaises(Get(r4, "extension")) THEN RaiseV
    ELSE extensions_appended(
             stu3, ExtensionsWithUrl(Get(r4, "extension"),
                                     EncounterReferenceUrl))

GoalRules(r4) ==
    LET s1 == CopyFields(r4, base_transform(r4), GoalFieldMappings)
        s2 == goal_status_fields(r4, s1)
        s3 == Rename(r4, s2, "start", "start")
    IN goal_encounter_reference_extension(r4, s3)

\* no try/except: an exception of a step leaves transform_resource
GoalTransformer(r4) == Bind(GoalRules(r4), structural_passes)

(* ---- Procedure ---- *)
ProcedureDirect ==
    <<"identifier", "instantiatesCanonical", "instantiatesUri", "basedOn",
      "partOf", "category", "code", "subject", "performed", "recorder",
      "asserter", "location", "reasonCode", "reasonReference", "bodySite",
      "outcome", "report", "complication", "complicationDetail", "followUp",
      "note", "usedReference", "usedCode">>
ProcedureMethodR4 ==
    <<"http://nictiz.nl/fhir/StructureDefinition/ext-Procedure.ProcedureMethod">>
ProcedureMethodStu3 ==
    <<"http://hl7.org/fhir/StructureDefinition/procedure-method">>

\* EVENT_STATUS_MAP.get(status, status)
EVENT_STATUS_MAP(status) ==
    IF status = "on-hold" THEN "suspended"
    ELSE IF status = "aborted" THEN "stopped"
    ELSE IF status = "stopped" THEN "aborted"
    ELSE status

procedure_status_and_not_done(r4, stu3) ==
    IF ~Truthy(Get(r4, "status")) THEN stu3
    ELSE IF Get(r4, "status") = Str("not-done")
    THEN Rename(r4, SetKey(SetKey(stu3, "status", Str("suspended")),
                           "notDone", TrueV),
                "statusReason", "notDoneReason")
    ELSE IF ~IsStr(Get(r4, "status")) THEN RaiseV
    ELSE SetKey(stu3, "status",
                IF Len(Get(r4, "status").s) = 1
                THEN Str(EVENT_STATUS_MAP(Get(r4, "status").s[1]))
                ELSE Get(r4, "status"))

\* lines 139-151
procedure_extensions_mapped(exts, stu3) ==
    IF Len(exts.c) = 0 THEN stu3
    ELSE SetKey(stu3, "extension",
                L([i \in 1..Len(exts.c) |->
                     IF Get(exts.c[i].val, "url") = S(ProcedureMethodR4)
                     THEN SetKey(exts.c[i].val, "url", S(ProcedureMethodStu3))
                     ELSE exts.c[i].val]))

procedure_extensions(r4, stu3) ==
    IF ~Has(r4, "extension") THEN stu3
    ELSE IF ExtensionLoopRaises(Get(r4, "extension")) THEN RaiseV
    ELSE procedure_extensions_mapped(Get(r4, "extension"), stu3)

RECURSIVE _clean_empty_extensions(_)
\* the entries of a dict with the cleaned values
clean_empty_entries(keep) ==
    O([i \in 1..Len(keep) |->
          E(keep[i].key, _clean_empty_extensions(keep[i].val))])

_clean_empty_extensions(obj) ==
    IF IsDict(obj)
    THEN clean_empty_entries(
             SelectSeq(obj.c, LAMBDA e :
                 ~(e.key = "extension" /\ IsList(e.val) /\ e.val.c = <<>>)))
    ELSE IF IsList(obj)
    THEN [obj EXCEPT !.c = [i \in 1..Len(obj.c) |->
              E("", _clean_empty_extensions(obj.c[i].val))]]
    ELSE obj

\* lines 277-329: the codings of the consultation category
SnomedSystem == Str("http://snomed.info/sct")
AcpCoding == O(<<E("system", SnomedSystem), E("code", Str("713603004"))>>)
ConsultationCoding ==
    O(<<E("code", Str("11429006")), E("system", SnomedSystem),
        E("display", Str("Consultation (procedure)"))>>)

\* "x in v" for the key or member x = 'coding' (v a dict, a list or a string;
\* a string is looked at token by token); None raises
ContainsCoding(v) ==
    \/ Has(v, "coding")
    \/ (IsList(v) /\ \E i \in 1..Len(v.c) : v.c[i].val = Str("coding"))
    \/ (IsStr(v) /\ \E i \in 1..Len(v.s) : v.s[i] = "coding")

\* a loop "for coding in codings: coding.get('code') == code and
\* coding.get('system') == system" that stops at the first match: "yes",
\* "no", or "raise" at an element before the match that is not an object
RECURSIVE coding_loop(_, _)
coding_loop(items, code) ==
    IF items = <<>> THEN "no"
    ELSE IF ~IsDict(Head(items)) THEN "raise"
    ELSE IF Get(Head(items), "code") = Str(code)
            /\ Get(Head(items), "system") = SnomedSystem
    THEN "yes"
    ELSE coding_loop(Tail(items), code)

\* the same loop over a value that need not be a list
has_coding(codings, code) ==
    IF IsList(codings)
    THEN coding_loop([i \in 1..Len(codings.c) |-> codings.c[i].val], code)
    ELSE IF ExtensionLoopRaises(codings) THEN "raise" ELSE "no"

\* lines 277-285: "yes" when code.coding holds the ACP code
has_acp_code(stu3) ==
    IF ~Has(stu3, "code") THEN "no"
    ELSE IF IsNone(Get(stu3, "code")) THEN "raise"
    ELSE IF ~ContainsCoding(Get(stu3, "code")) THEN "no"
    ELSE IF ~IsDict(Get(stu3, "code")) THEN "raise"
    ELSE has_coding(Get(Get(stu3, "code"), "coding"), "713603004")

\* variant of category_with_consultation that does not look for the
\* consultation coding before it adds it
category_with_consultation_added(category) ==
    IF ContainsCoding(category)
    THEN IF ~IsDict(category) THEN RaiseV
         ELSE IF has_coding(Get(category, "coding"), "11429006") = "raise"
         THEN RaiseV
         ELSE IF ~IsList(Get(category, "coding")) THEN RaiseV
         ELSE SetKey(category, "coding",
                     L([i \in 1..Len(Get(category, "coding").c) |->
                           Get(category, "coding").c[i].val]
                       \o <<ConsultationCoding>>))
    ELSE IF ~IsDict(category) THEN RaiseV
    ELSE SetKey(category, "coding", L(<<ConsultationCoding>>))

\* lines 300-329: the consultation coding is added to a category that is
\* there; the category object is changed where it is
category_with_consultation(category) ==
    IF ContainsCoding(category)
    THEN IF ~IsDict(category) THEN RaiseV
         ELSE IF has_coding(Get(category, "coding"), "11429006") = "raise"
         THEN RaiseV
         ELSE IF has_coding(Get(category, "coding"), "11429006") = "yes"
         THEN category
         ELSE IF ~IsList(Get(category, "coding")) THEN RaiseV
         ELSE SetKey(category, "coding",
                     L([i \in 1..Len(Get(category, "coding").c) |->
                           Get(category, "coding").c[i].val]
                       \o <<ConsultationCoding>>))
    ELSE IF ~IsDict(category) THEN RaiseV
    ELSE SetKey(category, "coding", L(<<ConsultationCoding>>))

\* line 289: the category is missing or empty, a new one is set
category_is_new(stu3) ==
    ~Has(stu3, "category") \/ ~Truthy(Get(stu3, "category"))

\* _add_consultation_category_for_acp
procedure_consultation_category(stu3) ==
    IF has_acp_code(stu3) = "raise" THEN RaiseV
    ELSE IF has_acp_code(stu3) = "no" THEN stu3
    ELSE IF category_is_new(stu3)
    THEN SetKey(stu3, "category", O(<<E("coding", L(<<ConsultationCoding>>))>>))
    ELSE Lift(SetKey(stu3, "category",
                     category_with_consultation(Get(stu3, "category"))))

ProcedureRules(r4) ==
    Bind(Bind(Bind(procedure_status_and_not_done(
                       r4, rule_set_head(r4, Str("Procedure"))),
                   LAMBDA s1 : Rename(r4, s1, "encounter", "context")),
              LAMBDA s2 : procedure_extensions(r4, s2)),
         LAMBDA s3 : procedure_consultation_category(
                         CopyFields(r4,
                                    Rename(r4, s3, "focalDevice", "focalDevice"),
                                    ProcedureDirect)))

ProcedureTransformer(r4) ==
    IF Get(r4, "resourceType") # Str("Procedure") THEN NoneV
    ELSE TryOrNone(Bind(Bind(ProcedureRules(r4), structural_passes),
                        _clean_empty_extensions))

(* ---- PractitionerRole ---- *)
PractitionerRoleDirect ==
    <<"identifier", "active", "period", "practitioner", "organization", "code",
      "specialty", "location", "healthcareService", "telecom",
      "availabilityExceptions", "endpoint">>

PractitionerRoleRules(r4) ==
    CopyFields(r4, rule_set_head(r4, Str("PractitionerRole")),
               PractitionerRoleDirect)

PractitionerRoleTransformer(r4) ==
    IF Get(r4, "resourceType") # Str("PractitionerRole") THEN NoneV
    ELSE TryOrNone(structural_passes(PractitionerRoleRules(r4)))

(* ---- RelatedPerson ---- *)
(* The RelatedPerson documents drawn below hold a list, an object or null   *)
(* under relationship (a string is not drawn).                              *)
RelatedPersonDirect ==
    <<"identifier", "active", "patient", "name", "telecom", "gender",
      "birthDate", "address", "photo", "period">>

\* rel.get('text', str(rel)): what the warning cites of a discarded value
discarded_identity(rel) == IF Has(rel, "text") THEN Get(rel, "text") ELSE rel

\* lines 110-115: the discarded values the warning cites; building the
\* message raises on a value that is not an object, and on slicing an object
discarded_relationships(r4_relationship) ==
    IF ~IsList(r4_relationship) THEN RaiseV
    ELSE IF \E i \in 2..Len(r4_relationship.c) :
                ~IsDict(r4_relationship.c[i].val)
    THEN RaiseV
    ELSE L([i \in 1..(Len(r4_relationship.c) - 1) |->
               discarded_identity(r4_relationship.c[i + 1].val)])

\* lines 94-118: the first relationship; {} when there is none
_transform_relationship(r4_relationship) ==
    IF ~Truthy(r4_relationship) THEN O(<<>>)
    ELSE IF Len(r4_relationship.c) > 1
            /\ Raised(discarded_relationships(r4_relationship))
    THEN RaiseV
    ELSE IF ~IsList(r4_relationship) THEN RaiseV
    ELSE r4_relationship.c[1].val

\* lines 75-92
RelatedPersonRules(r4) ==
    Then(CopyFields(r4, rule_set_head(r4, Str("RelatedPerson")),
                    RelatedPersonDirect),
         LAMBDA stu3 :
             IF ~Has(r4, "relationship") THEN stu3
             ELSE Bind(_transform_relationship(Get(r4, "relationship")),
                       LAMBDA first : SetKey(stu3, "relationship", first)))

RelatedPersonTransformer(r4) ==
    IF Get(r4, "resourceType") # Str("RelatedPerson") THEN NoneV
    ELSE TryOrNone(Bind(RelatedPersonRules(r4), structural_passes))

(* ---- Consent ---- *)
(* The Consent documents drawn below carry resourceType, id, identifier,    *)
(* status and patient; the steps that read category, extension, provision   *)
(* and modifierExtension leave such documents unchanged.                    *)

\* lines 107-112: the first identifier of a list, the identifier itself
\* when it is not a list, no identifier when it is empty
consent_identifier(r4, stu3) ==
    IF ~Truthy(Get(r4, "identifier")) THEN stu3
    ELSE IF IsList(Get(r4, "identifier"))
    THEN SetKey(stu3, "identifier", Get(r4, "identifier").c[1].val)
    ELSE SetKey(stu3, "identifier", Get(r4, "identifier"))

ConsentCleanup ==
    <<"extension", "modifierExtension", "except", "category",
      "consentingParty">>

\* lines 446-458: an empty list or object under one of the keys is removed
RECURSIVE _cleanup_empty_fields(_, _)
_cleanup_empty_fields(stu3, fields) ==
    IF fields = <<>> THEN stu3
    ELSE _cleanup_empty_fields(
             IF Get(stu3, Head(fields)).k \in {"l", "o"}
                /\ Get(stu3, Head(fields)).c = <<>>
             THEN DelKey(stu3, Head(fields)) ELSE stu3,
             Tail(fields))

\* lines 88-147
ConsentRules(r4) ==
    LET head == rule_set_head(r4, Str("Consent"))
        s1 == consent_identifier(r4, head)
        s2 == CopyFields(r4, s1, <<"status", "patient", "dateTime",
                                   "organization", "source",
                                   "sourceAttachment", "policy">>)
    IN _cleanup_empty_fields(s2, ConsentCleanup)

\* no try: what a step raises leaves the rule set
ConsentTransformer(r4) ==
    IF Get(r4, "resourceType") # Str("Consent") THEN NoneV
    ELSE Bind(ConsentRules(r4), structural_passes)

\* the data-loss warnings the rules of a rule set log on a document, each
\* the list of the discarded values it cites (only line 111 logs one)
data_loss_logged(resource_type, r4) ==
    IF resource_type = "RelatedPerson"
       /\ IsList(Get(r4, "relationship"))
       /\ Len(Get(r4, "relationship").c) > 1
       /\ ~Raised(discarded_relationships(Get(r4, "relationship")))
    THEN <<discarded_relationships(Get(r4, "relationship"))>>
    ELSE <<>>

(* ---- what a draft shares with the caller's document ---- *)
\* "stu3_resource[field] = r4_resource[field]" puts the object of the
\* caller's document into the draft, so what a later step changes inside
\* that object is changed in the caller's document.

Same(fields) == [i \in 1..Len(fields) |-> <<fields[i], fields[i]>>]

\* <<draft key, source key>> of the draft entries whose value is the object
\* under the source key.  The Procedure category is one unless line 299 set
\* a new one.
SharedFields(resource_type, r4) ==
    CASE resource_type = "Communication" ->
             Same(<<"text", "contained">>)
             \o <<<<"definition", "instantiatesCanonical">>,
                  <<"notDoneReason", "statusReason">>,
                  <<"context", "encounter">>>>
             \o Same(CommunicationDirect)
      [] resource_type = "Goal" ->
             Same(<<"implicitRules", "language", "text">>)
             \o Same(GoalFieldMappings)
      [] resource_type = "Procedure" ->
             Same(<<"text", "contained">>)
             \o <<<<"notDoneReason", "statusReason">>,
                  <<"context", "encounter">>>>
             \o Same(<<"focalDevice">>)
             \o Same(SelectSeq(ProcedureDirect, LAMBDA f :
                    f # "category"
                    \/ ~(has_acp_code(r4) = "yes" /\ category_is_new(r4))))
      [] resource_type = "PractitionerRole" ->
             Same(<<"text", "contained">>) \o Same(PractitionerRoleDirect)
      [] resource_type = "RelatedPerson" ->
             Same(<<"text", "contained">>) \o Same(RelatedPersonDirect)
      [] resource_type = "Consent" ->
             Same(<<"text", "contained">>)
             \o (IF IsList(Get(r4, "identifier")) THEN <<>>
                 ELSE Same(<<"identifier">>))
             \o Same(<<"status", "patient", "dateTime", "organization",
                       "source", "sourceAttachment", "policy">>)

\* the caller's document with the shared values as they are in the draft
RECURSIVE written_back(_, _, _)
written_back(r4, draft, fields) ==
    IF fields = <<>> THEN r4
    ELSE written_back(
             IF Has(draft, Head(fields)[1]) /\ Has(r4, Head(fields)[2])
             THEN SetKey(r4, Head(fields)[2], Get(draft, Head(fields)[1]))
             ELSE r4,
             draft, Tail(fields))

\* the first position of items that satisfies Test (0 when there is none)
RECURSIVE FirstPosition(_, _, _)
FirstPosition(items, Test(_), i) ==
    IF i > Len(items) THEN 0
    ELSE IF Test(items[i]) THEN i
    ELSE FirstPosition(items, Test, i + 1)

\* the key of a topic extension whose value became the topic (lines 122-127)
TopicValueKey(extension) ==
    IF Has(extension, "value") THEN "value"
    ELSE IF Has(extension, "valueReference") THEN "valueReference"
    ELSE "valueCodeableConcept"

\* the source's item at position i with its value under key replaced
item_written_back(r4, i, key, val) ==
    SetKey(r4, "extension",
           [Get(r4, "extension") EXCEPT !.c[i].val = SetKey(@, key, val)])

\* Communication: the topic is the value object of the first topic extension
topic_written_back(r4, draft) ==
    IF ~Has(draft, "topic") THEN r4
    ELSE Then(FirstPosition(ExtensionItems(r4),
                            LAMBDA e : Get(e, "url") = S(TopicUrl), 1),
              LAMBDA i :
                  item_written_back(
                      r4, i, TopicValueKey(Get(r4, "extension").c[i].val),
                      Get(draft, "topic")))

\* Goal: the draft's extension list holds the source's EncounterReference
\* extensions, in their order
RECURSIVE items_written_back(_, _, _, _)
items_written_back(items, Shared(_), from, i) ==
    IF i > Len(items) THEN <<>>
    ELSE IF Shared(items[i].val)
    THEN <<E("", Head(from))>>
         \o items_written_back(items, Shared, Tail(from), i + 1)
    ELSE <<items[i]>> \o items_written_back(items, Shared, from, i + 1)

encounter_reference_written_back(r4, draft) ==
    IF ~Has(draft, "extension") THEN r4
    ELSE SetKey(r4, "extension",
                [Get(r4, "extension") EXCEPT !.c =
                    items_written_back(
                        @, LAMBDA e : Get(e, "url") = S(EncounterReferenceUrl),
                        ExtensionItems(draft), 1)])

\* Procedure: the draft's extensions are one-level copies (line 140) of the
\* source's, with the url they had replaced where it was mapped
extension_copy_written_back(r4_extension, stu3_extension) ==
    IF Has(r4_extension, "url")
    THEN SetKey(stu3_extension, "url", Get(r4_extension, "url"))
    ELSE stu3_extension

extension_copies_written_back(r4, draft) ==
    IF ~Has(draft, "extension") THEN r4
    ELSE SetKey(r4, "extension",
                [Get(r4, "extension") EXCEPT !.c =
                    [i \in 1..Len(@) |->
                        E("", extension_copy_written_back(
                                  @[i].val, ExtensionItems(draft)[i]))]])

\* RelatedPerson and Consent: the draft's value is the first item of the
\* source's list
first_item_written_back(r4, draft, key) ==
    IF Has(draft, key) /\ IsList(Get(r4, key)) /\ Get(r4, key).c # <<>>
    THEN SetKey(r4, key, [Get(r4, key) EXCEPT !.c[1].val = Get(draft, key)])
    ELSE r4

\* the caller's document given what the objects it shares with the draft
\* hold now
shared_written_back(resource_type, r4, draft) ==
    Then(written_back(r4, draft, SharedFields(resource_type, r4)),
         LAMBDA w :
             CASE resource_type = "Communication" -> topic_written_back(w, draft)
               [] resource_type = "Goal" ->
                      encounter_reference_written_back(w, draft)
               [] resource_type = "Procedure" ->
                      extension_copies_written_back(w, draft)
               [] resource_type = "RelatedPerson" ->
                      first_item_written_back(w, draft, "relationship")
               [] resource_type = "Consent" ->
                      first_item_written_back(w, draft, "identifier")
               [] OTHER -> w)

\* the caller's document after the rule set's own rules gave the draft
source_after_rules(resource_type, r4, draft) ==
    IF Raised(draft) THEN r4 ELSE shared_written_back(resource_type, r4, draft)

\* the caller's document after the extension pass went over the cleaned
\* draft (also when the pass raised on its way)
source_after_extension_pass(resource_type, r4, draft) ==
    shared_written_back(resource_type, r4,
                        rewritten_in_place(draft, "rebuilt").v)

----------------------------------------------------------------------------
(* FhirR4ToStu3Transformer: registry and single-document entry points *)

\* variant of DenySet that misses ValueSet
DenySetWithoutValueSet ==
    {"StructureDefinition", "ImplementationGuide", "Parameters",
     "SearchParameter"}

\* lines 157 and 190
DenySet == {"ValueSet", "StructureDefinition", "ImplementationGuide",
            "Parameters", "SearchParameter"}

\* self.transformers: the discovered rule sets that are modelled
transformers == {"Communication", "Goal", "Procedure", "PractitionerRole",
                 "RelatedPerson", "Consent"}

\* resource_data.get('resourceType') as a name ("" when not a plain name)
ResourceTypeOf(resource_data) ==
    IF IsStr(Get(resource_data, "resourceType"))
       /\ Len(Get(resource_data, "resourceType").s) = 1
    THEN Get(resource_data, "resourceType").s[1] ELSE ""

\* the per-type rules of the registered rule set, before the passes
per_type_rules(resource_type, r4) ==
    CASE resource_type = "Communication" -> CommunicationRules(r4)
      [] resource_type = "Goal" -> GoalRules(r4)
      [] resource_type = "Procedure" -> ProcedureRules(r4)
      [] resource_type = "PractitionerRole" -> PractitionerRoleRules(r4)
      [] resource_type = "RelatedPerson" -> RelatedPersonRules(r4)
      [] resource_type = "Consent" -> ConsentRules(r4)

\* transformer.transform_resource(resource_data)
rule_set_transform(resource_type, r4) ==
    CASE resource_type = "Communication" -> CommunicationTransformer(r4)
      [] resource_type = "Goal" -> GoalTransformer(r4)
      [] resource_type = "Procedure" -> ProcedureTransformer(r4)
      [] resource_type = "PractitionerRole" -> PractitionerRoleTransformer(r4)
      [] resource_type = "RelatedPerson" -> RelatedPersonTransformer(r4)
      [] resource_type = "Consent" -> ConsentTransformer(r4)

\* lines 166-170: Phase 2 when the index and the result are non-empty
phase2_if_available(stu3_resource, prr) ==
    IF Raised(stu3_resource) THEN RaiseV
    ELSE IF DOMAIN prr # {} /\ Truthy(stu3_resource)
    THEN process_practitioner_role_references_in_object(stu3_resource, prr)
    ELSE stu3_resource

\* the warnings of lines 166-168
warnings_if_available(stu3_resource, prr) ==
    IF DOMAIN prr # {} /\ Truthy(stu3_resource)
    THEN warnings_logged(stu3_resource, prr).n
    ELSE 0

\* variant of transform_resource that skips an unregistered type
transform_resource_skips_unregistered(resource_data, prr) ==
    IF ResourceTypeOf(resource_data) \in DenySet
       \/ ResourceTypeOf(resource_data) \notin transformers THEN NoneV
    ELSE Then(rule_set_transform(ResourceTypeOf(resource_data),
                                 resource_data),
              LAMBDA stu3_resource : phase2_if_available(stu3_resource, prr))

\* the document, None (skipped) or a raise (ValueError or a rule set's own)
transform_resource(resource_data, prr) ==
    IF ResourceTypeOf(resource_data) \in DenySet THEN NoneV
    ELSE IF ResourceTypeOf(resource_data) \notin transformers THEN RaiseV
    ELSE Then(rule_set_transform(ResourceTypeOf(resource_data),
                                 resource_data),
              LAMBDA stu3_resource : phase2_if_available(stu3_resource, prr))

\* json.load of a file: its content, a raise for an unreadable file
load(input_file) == input_file.content

FileFailed == [result |-> "False", doc |-> NoneV]
FileSkipped == [result |-> "None", doc |-> NoneV]

\* variant of file_result that takes None for a failure
file_result_none_fails(stu3_resource) ==
    IF Raised(stu3_resource) \/ IsNone(stu3_resource) THEN FileFailed
    ELSE [result |-> "True", doc |-> stu3_resource]

\* lines 198-210: None is a skip, a document is written
file_result(stu3_resource) ==
    IF Raised(stu3_resource) THEN FileFailed
    ELSE IF IsNone(stu3_resource) THEN FileSkipped
    ELSE [result |-> "True", doc |-> stu3_resource]

\* lines 188-210, the file loaded
transform_loaded(r4_resource, prr) ==
    IF Raised(r4_resource) \/ ~IsDict(r4_resource) THEN FileFailed
    ELSE IF ResourceTypeOf(r4_resource) \in DenySet THEN FileSkipped
    ELSE Then(transform_resource(r4_resource, prr), file_result)

\* transform_file: [result, doc]; result is "True", "False" or "None" and
\* doc the document written to the output file (None when none is written)
transform_file(input_file, prr) == transform_loaded(load(input_file), prr)

\* variant of index_with that keeps the entry an id already has
index_with_first_wins(index, resource_data, resource_id) ==
    IF Truthy(resource_id) /\ IsStr(resource_id)
    THEN index @@ (resource_id.s :> resource_data)
    ELSE index

\* lines 100-102
index_with(index, resource_data, resource_id) ==
    IF Truthy(resource_id) /\ IsStr(resource_id)
    THEN (resource_id.s :> resource_data) @@ index
    ELSE index

\* lines 95-105
collect_loaded(index, resource_data) ==
    IF Raised(resource_data) \/ ~IsDict(resource_data) THEN index
    ELSE IF Get(resource_data, "resourceType") # S(PractitionerRoleTag)
    THEN index
    ELSE index_with(index, resource_data, Get(resource_data, "id"))

\* one iteration of _collect_practitioner_role_resources_from_dirs' inner
\* loop: the index after the file was read
collect_practitioner_role(index, input_file) ==
    collect_loaded(index, load(input_file))

\* the files of the existing directories, in directory order
RECURSIVE files_of_dirs(_)
files_of_dirs(dirs) ==
    IF dirs = <<>> THEN <<>>
    ELSE (IF Head(dirs).exists THEN Head(dirs).files ELSE <<>>)
         \o files_of_dirs(Tail(dirs))

\* variant of phase1_files that scans the first directory only
phase1_files_first_dir(dirs) ==
    IF dirs # <<>> /\ Head(dirs).exists THEN Head(dirs).files ELSE <<>>

\* the files Phase 1 scans (lines 86-94)
phase1_files(dirs) == files_of_dirs(dirs)

\* variant of on_loop_exception without the except clause: the exception
\* leaves transform_directories
on_loop_exception_uncaught ==
    [outcome |-> "error", doc |-> NoneV, goto |-> "aborted"]

\* lines 278-280: an exception that reaches the loop is counted as an
\* error and the loop goes on with the next file
on_loop_exception ==
    [outcome |-> "error", doc |-> NoneV, goto |-> "transform"]

\* lines 271-276
counted(r) ==
    [outcome |-> IF r.result = "True" THEN "success"
                 ELSE IF r.result = "False" THEN "error" ELSE "skipped",
     doc |-> r.doc, goto |-> "transform"]

\* variant of loop_body in which a file dropped by the filter is not counted
loop_body_filtered_uncounted(input_file, filter, prr) ==
    IF filter # {} /\ (Raised(load(input_file)) \/ ~IsDict(load(input_file)))
    THEN on_loop_exception
    ELSE IF filter # {} /\ ResourceTypeOf(load(input_file)) \notin filter
    THEN [outcome |-> "filtered", doc |-> NoneV, goto |-> "transform"]
    ELSE Then(transform_file(input_file, prr), counted)

\* the body of the transformation loop for one file:
\* [outcome, doc, goto]
loop_body(input_file, filter, prr) ==
    IF filter # {} /\ (Raised(load(input_file)) \/ ~IsDict(load(input_file)))
    THEN on_loop_exception
    ELSE IF filter # {} /\ ResourceTypeOf(load(input_file)) \notin filter
    THEN [outcome |-> "skipped", doc |-> NoneV, goto |-> "transform"]
    ELSE Then(transform_file(input_file, prr), counted)

----------------------------------------------------------------------------
(* Documents of the batch runs *)

MaxFiles == 2

PRef(id) == S(<<"Practitioner/", id>>)
RoleRef(id) == S(<<PractitionerRolePrefix, id>>)

\* a PractitionerRole document
RoleDoc(id, practitioner) ==
    O((<<E("resourceType", S(PractitionerRoleTag))>>
       \o (IF IsNone(id) THEN <<>> ELSE <<E("id", id)>>))
      \o (IF IsNone(practitioner) THEN <<>>
          ELSE <<E("practitioner", practitioner)>>))

PractitionerA == O(<<E("reference", PRef("p1")), E("display", Str("Dr. A"))>>)
PractitionerB == O(<<E("reference", PRef("p2"))>>)

RoleA == RoleDoc(Str("r1"), PractitionerA)
RoleB == RoleDoc(Str("r1"), PractitionerB)
RoleNoId == RoleDoc(NoneV, PractitionerA)
RoleEmptyId == RoleDoc(S(<<>>), PractitionerA)
RoleC == RoleDoc(Str("r2"), PractitionerB)

\* a Communication whose sender is the role r1
CommToRole ==
    O(<<E("resourceType", Str("Communication")), E("id", Str("c1")),
        E("status", Str("completed")),
        E("sender", O(<<E("reference", RoleRef("r1")),
                        E("type", S(PractitionerRoleTag)),
                        E("display", Str("Role 1"))>>))>>)
\* a Communication and a Goal whose extension list holds a string
CommMalformed ==
    O(<<E("resourceType", Str("Communication")), E("id", Str("c2")),
        E("extension", L(<<Str("x")>>))>>)
GoalMalformed ==
    O(<<E("resourceType", Str("Goal")), E("id", Str("g1")),
        E("extension", L(<<Str("x")>>))>>)
\* a Communication and a Goal that hold such a list deeper in the tree
CommPassRaises ==
    O(<<E("resourceType", Str("Communication")), E("id", Str("c3")),
        E("contained", L(<<O(<<E("resourceType", Str("Patient")),
                               E("extension", L(<<Str("x")>>))>>)>>))>>)
GoalPassRaises ==
    O(<<E("resourceType", Str("Goal")), E("id", Str("g2")),
        E("subject", O(<<E("reference", S(<<"Patient/", "1">>)),
                         E("extension", L(<<Str("x")>>))>>))>>)
\* a Communication with a role reference whose reference is not a string
Phase2Raises ==
    O(<<E("resourceType", Str("Communication")), E("id", Str("c4")),
        E("sender",
          O(<<E("reference", S(<<"Patient/", "1">>)),
              E("type", Str("Patient")),
              E("extension",
                L(<<O(<<E("url", Str("http://example.org/fhir/ext")),
                        E("valueReference",
                          O(<<E("reference", O(<<E("x", Str("y"))>>)),
                              E("type", S(PractitionerRoleTag))>>))>>)>>))>>))>>)
ValueSetDoc == O(<<E("resourceType", Str("ValueSet")), E("id", Str("v1"))>>)
PatienttDoc == O(<<E("resourceType", Str("Patientt")), E("id", Str("x1"))>>)
\* a file json.load cannot read
BadFile == RaiseV

BatchContents == {RoleA, RoleB, RoleC, RoleNoId, RoleEmptyId, CommToRole,
                  CommMalformed,
                  GoalMalformed, GoalPassRaises, Phase2Raises, ValueSetDoc,
                  PatienttDoc, BadFile}

\* the resource_types filters tried ({} stands for None)
Filters == {{}, {"Communication"}, {"Patientt", "ValueSet"}}

\* the files of a directory: the j-th is named f<j>.json
DirFiles(contents) ==
    [j \in 1..Len(contents) |-> [name |-> j, content |-> contents[j]]]

ContentSeqs == UNION {[1..n -> BatchContents] : n \in 0..MaxFiles}

\* two input directories; the second may not exist
Take(s, k) == [i \in 1..k |-> s[i]]
Drop(s, k) == [i \in 1..(Len(s) - k) |-> s[i + k]]
DirPairs ==
    UNION {{<<[exists |-> TRUE, files |-> DirFiles(Take(cs, k))],
              [exists |-> TRUE, files |-> DirFiles(Drop(cs, k))]>> :
               k \in 0..Len(cs)} : cs \in ContentSeqs}
    \cup {<<[exists |-> TRUE, files |-> DirFiles(cs)],
            [exists |-> FALSE, files |-> <<>>]>> : cs \in ContentSeqs}

\* lines 20-25 of base_transformer.py
NewStats == [processed |-> 0, transformed |-> 0, skipped |-> 0, errors |-> 0]

\* no call of transform_file was made yet
NoCalls == [made |-> 0, unloaded |-> 0]

PassIdle == /\ stage = "off" /\ src = NoneV /\ source_document = NoneV
            /\ tree = NoneV /\ prev = NoneV /\ idx = EmptyIndex
            /\ unresolved_warnings = 0 /\ data_loss_events = <<>>
            /\ rule_set = "" /\ stats = NewStats /\ calls = NoCalls

----------------------------------------------------------------------------
(* transform_directories *)

Init ==
    /\ input_dirs \in DirPairs
    /\ resource_types \in Filters
    /\ pc = "collect"
    /\ all_input_files = <<>>
    /\ scan = 0
    /\ practitioner_role_resources = EmptyIndex
    /\ next_file = 0
    /\ success_count = 0 /\ error_count = 0 /\ skipped_count = 0
    /\ outcomes = <<>>
    /\ written = <<>>
    /\ PassIdle

\* lines 228-243: collect the files; return when there are none
CollectFiles ==
    /\ pc = "collect"
    /\ all_input_files' = files_of_dirs(input_dirs)
    /\ pc' = IF all_input_files' = <<>> THEN "nofiles" ELSE "phase1"
    /\ UNCHANGED <<input_dirs, resource_types, scan,
                   practitioner_role_resources, next_file, success_count,
                   error_count, skipped_count, outcomes, written>>
    /\ UNCHANGED passVars

\* lines 94-105: Phase 1 reads one more file
Phase1Step ==
    /\ pc = "phase1"
    /\ scan < Len(phase1_files(input_dirs))
    /\ practitioner_role_resources' =
           collect_practitioner_role(practitioner_role_resources,
                                     phase1_files(input_dirs)[scan + 1])
    /\ scan' = scan + 1
    /\ UNCHANGED <<input_dirs, resource_types, pc, all_input_files, next_file,
                   success_count, error_count, skipped_count, outcomes,
                   written>>
    /\ UNCHANGED passVars

\* lines 107, 247-252: Phase 1 returns the index; the counters are set
Phase1Done ==
    /\ pc = "phase1"
    /\ scan = Len(phase1_files(input_dirs))
    /\ pc' = "transform"
    /\ UNCHANGED <<input_dirs, resource_types, all_input_files, scan,
                   practitioner_role_resources, next_file, success_count,
                   error_count, skipped_count, outcomes, written>>
    /\ UNCHANGED passVars

\* the effect of one iteration whose body gave r
LoopEffect(input_file, r) ==
    /\ pc' = r.goto
    /\ next_file' = next_file + 1
    /\ success_count' =
           success_count + (IF r.outcome = "success" THEN 1 ELSE 0)
    /\ error_count' =
           error_count + (IF r.outcome = "error" THEN 1 ELSE 0)
    /\ skipped_count' =
           skipped_count + (IF r.outcome = "skipped" THEN 1 ELSE 0)
    /\ outcomes' = Append(outcomes, r.outcome)
    /\ written' =
           IF r.outcome = "success"
           THEN Append(written,
                       [name |-> <<"converted-", input_file.name>>,
                        doc |-> r.doc, from |-> next_file + 1])
           ELSE written

\* variant of TransformStep in which the index is used up by the first
\* document that is transformed
TransformStepForgettingIndex ==
    /\ pc = "transform"
    /\ next_file < Len(all_input_files)
    /\ \E r \in {loop_body(all_input_files[next_file + 1], resource_types, practitioner_role_resources)} :
           LoopEffect(all_input_files[next_file + 1], r)
    /\ practitioner_role_resources' = EmptyIndex
    /\ UNCHANGED <<input_dirs, resource_types, all_input_files, scan>>
    /\ UNCHANGED passVars

\* variant of TransformStep in which the index shares the documents being
\* transformed: a transformed PractitionerRole document replaces its entry
TransformStepSharingRoleDocuments ==
    /\ pc = "transform"
    /\ next_file < Len(all_input_files)
    /\ \E r \in {loop_body(all_input_files[next_file + 1], resource_types,
                            practitioner_role_resources)} :
           /\ LoopEffect(all_input_files[next_file + 1], r)
           /\ practitioner_role_resources' =
                  collect_loaded(practitioner_role_resources, r.doc)
    /\ UNCHANGED <<input_dirs, resource_types, all_input_files, scan>>
    /\ UNCHANGED passVars

\* lines 254-280: one iteration of the transformation loop
TransformStep ==
    /\ pc = "transform"
    /\ next_file < Len(all_input_files)
    /\ \E r \in {loop_body(all_input_files[next_file + 1], resource_types,
                            practitioner_role_resources)} :
           LoopEffect(all_input_files[next_file + 1], r)
    /\ UNCHANGED <<input_dirs, resource_types, all_input_files, scan,
                   practitioner_role_resources>>
    /\ UNCHANGED passVars

\* lines 282-285: the summary
Summary ==
    /\ pc = "transform"
    /\ next_file = Len(all_input_files)
    /\ pc' = "summary"
    /\ UNCHANGED <<input_dirs, resource_types, all_input_files, scan,
                   practitioner_role_resources, next_file, success_count,
                   error_count, skipped_count, outcomes, written>>
    /\ UNCHANGED passVars

Next == \/ CollectFiles
        \/ Phase1Step
        \/ Phase1Done
        \/ TransformStep
        \/ Summary

Spec == Init /\ [][Next]_vars

\* the run is sequential code: a step that can be taken is taken
FairSpec == Spec /\ WF_vars(Next)

----------------------------------------------------------------------------
(* Documents and indexes of the single-document pipeline *)

MaxExtLen == 2

PatientRef == S(<<"Patient/", "1">>)
OrganizationRef == S(<<"Organization/", "o1">>)
PlainUrl == <<"http://example.org/fhir/StructureDefinition/note">>
R4PathUrl == <<"http://example.org/fhir", "/", "R4", "/", "StructureDefinition/ext">>
R4TwiceUrl == <<"http://example.org", "/", "R4", "/", "R4", "/", "ext">>

\* an extension with a value, and one with nested extensions
Ext(url) == O(<<E("url", S(url)), E("valueString", Str("v"))>>)
Nest(url, items) == O(<<E("url", S(url)), E("extension", L(items))>>)

ExtItems ==
    {Ext(DeniedUrl), Ext(CodeSpecR4), Ext(PlainUrl),
     Nest(PlainUrl, <<>>),
     Nest(PlainUrl, <<Ext(DeniedUrl)>>),
     Nest(PlainUrl, <<Ext(DeniedUrl), Ext(R4PathUrl)>>),
     Nest(DeniedUrl, <<Ext(PlainUrl)>>),
     Nest(R4TwiceUrl, <<Ext(R4TwiceUrl)>>),
     Nest(PlainUrl, <<Nest(PlainUrl, <<Ext(DeniedUrl)>>)>>)}

ExtLists == {L(items) : items \in UNION {[1..n -> ExtItems] : n \in 0..MaxExtLen}}

\* the places of a document that hold an extension list
Holders == {"Procedure.extension", "contained.extension",
            "contained.modifierExtension", "subject.extension",
            "Goal.subject.extension"}

ExtDoc(holder, exts) ==
    CASE holder = "Procedure.extension" ->
           O(<<E("resourceType", Str("Procedure")), E("id", Str("p1")),
               E("status", Str("on-hold")), E("extension", exts)>>)
      [] holder = "contained.extension" ->
           O(<<E("resourceType", Str("Communication")), E("id", Str("c1")),
               E("contained",
                 L(<<O(<<E("resourceType", Str("Patient")),
                         E("id", Str("pat")), E("extension", exts)>>)>>))>>)
      [] holder = "contained.modifierExtension" ->
           O(<<E("resourceType", Str("Communication")), E("id", Str("c1")),
               E("contained",
                 L(<<O(<<E("resourceType", Str("Patient")),
                         E("id", Str("pat")),
                         E("modifierExtension", exts)>>)>>))>>)
      [] holder = "subject.extension" ->
           O(<<E("resourceType", Str("Communication")), E("id", Str("c1")),
               E("status", Str("not-done")),
               E("subject", O(<<E("reference", PatientRef),
                                E("extension", exts)>>))>>)
      [] holder = "Goal.subject.extension" ->
           O(<<E("resourceType", Str("Goal")), E("id", Str("g1")),
               E("lifecycleStatus", Str("active")),
               E("subject", O(<<E("reference", PatientRef),
                                E("type", Str("Patient")),
                                E("extension", exts)>>))>>)

ExtDocs == {ExtDoc(h, exts) : h \in Holders, exts \in ExtLists}

\* a reference node: reference, optional type and display, and optionally
\* another reference nested under identifier.assigner or in an extension
RefNode(ref, typ, display, nested) ==
    O(<<E("reference", ref)>>
      \o (IF IsNone(typ) THEN <<>> ELSE <<E("type", typ)>>)
      \o (IF IsNone(display) THEN <<>> ELSE <<E("display", display)>>)
      \o (CASE nested = "assigner" ->
                 <<E("identifier",
                     O(<<E("assigner",
                           O(<<E("reference", OrganizationRef),
                               E("type", Str("Organization"))>>))>>))>>
            [] nested = "valueReference" ->
                 <<E("extension",
                     L(<<O(<<E("url", S(PlainUrl)),
                             E("valueReference",
                               O(<<E("reference", RoleRef("r1")),
                                   E("type", S(PractitionerRoleTag))>>))>>)>>))>>
            [] OTHER -> <<>>))

RefNodes ==
    {RefNode(ref, typ, display, nested) :
        ref \in {RoleRef("r1"), RoleRef("r9"), PatientRef},
        typ \in {NoneV, S(PractitionerRoleTag), Str("Patient")},
        display \in {NoneV, S(<<>>), Str("Role 1")},
        nested \in {"none", "assigner", "valueReference"}}

\* a Communication that holds the node as sender or in its recipient list
RefDoc(place, node) ==
    O(<<E("resourceType", Str("Communication")), E("id", Str("c1")),
        E("status", Str("completed"))>>
      \o (IF place = "sender" THEN <<E("sender", node)>>
          ELSE <<E("recipient", L(<<Ext(PlainUrl), node>>))>>))

RefDocs == {RefDoc(place, node) : place \in {"sender", "recipient"},
                                  node \in RefNodes}

ProcedureMalformed ==
    O(<<E("resourceType", Str("Procedure")), E("id", Str("p2")),
        E("extension", L(<<Str("x")>>))>>)

\* a Procedure about advance care planning, with the category it has
ProcedureWithCode(coding, category) ==
    O(<<E("resourceType", Str("Procedure")), E("id", Str("p1")),
        E("status", Str("completed")),
        E("code", O(<<E("coding", L(<<coding>>))>>))>>
      \o (IF IsNone(category) THEN <<>> ELSE <<E("category", category)>>))

OtherCoding == O(<<E("system", Str("s")), E("code", Str("c"))>>)

Categories ==
    {NoneV, O(<<E("coding", L(<<OtherCoding>>))>>),
     O(<<E("coding", L(<<ConsultationCoding>>))>>),
     O(<<E("text", Str("t"))>>), O(<<E("coding", L(<<>>))>>),
     L(<<O(<<E("coding", L(<<OtherCoding>>))>>)>>)}

CodedProcedures ==
    {ProcedureWithCode(coding, category) :
        coding \in {AcpCoding, OtherCoding}, category \in Categories}

\* a reference that carries its type and, one level below, an extension
\* list of the given holder
TypedReference(exts) ==
    O(<<E("reference", PatientRef), E("type", Str("Patient")),
        E("identifier", O(<<E("extension", exts)>>))>>)

NestedExtensionLists ==
    {L(<<Ext(DeniedUrl), Ext(R4PathUrl)>>), L(<<Ext(R4PathUrl)>>),
     L(<<Ext(DeniedUrl)>>), L(<<Ext(PlainUrl), Str("x")>>)}

TypedReferenceDoc(resource_type, exts) ==
    CASE resource_type = "Communication" ->
           O(<<E("resourceType", Str("Communication")), E("id", Str("c1")),
               E("subject", TypedReference(exts))>>)
      [] resource_type = "Goal" ->
           O(<<E("resourceType", Str("Goal")), E("id", Str("g1")),
               E("extension",
                 L(<<Ext(PlainUrl),
                     O(<<E("url", S(EncounterReferenceUrl)),
                         E("valueReference", TypedReference(exts))>>)>>))>>)
      [] resource_type = "Procedure" ->
           O(<<E("resourceType", Str("Procedure")), E("id", Str("p1")),
               E("extension",
                 L(<<O(<<E("url", S(PlainUrl)),
                         E("valueReference", TypedReference(exts))>>)>>))>>)
      [] resource_type = "PractitionerRole" ->
           O(<<E("resourceType", Str("PractitionerRole")), E("id", Str("r1")),
               E("organization", TypedReference(exts))>>)
      [] resource_type = "RelatedPerson" ->
           O(<<E("resourceType", Str("RelatedPerson")), E("id", Str("rp1")),
               E("relationship",
                 L(<<O(<<E("text", Str("A")),
                         E("subject", TypedReference(exts))>>)>>))>>)
      [] resource_type = "Consent" ->
           O(<<E("resourceType", Str("Consent")), E("id", Str("cs1")),
               E("identifier",
                 L(<<O(<<E("value", Str("A")),
                         E("assigner", TypedReference(exts))>>),
                     O(<<E("value", Str("B"))>>)>>))>>)

TypedReferenceDocs ==
    {TypedReferenceDoc(t, exts) : t \in transformers,
                                  exts \in NestedExtensionLists}

\* a Communication from the role r1 to the roles r9 and r1
CommTwoRoles ==
    O(<<E("resourceType", Str("Communication")), E("id", Str("c5")),
        E("sender", O(<<E("reference", RoleRef("r1"))>>)),
        E("recipient",
          L(<<O(<<E("reference", RoleRef("r9")),
                  E("display", Str("Role 9"))>>),
              O(<<E("reference", RoleRef("r9"))>>),
              O(<<E("reference", RoleRef("r1"))>>)>>))>>)

\* a Communication whose sender holds, in an extension, a reference marked
\* as a role by its type only
CommNestedMarker ==
    O(<<E("resourceType", Str("Communication")), E("id", Str("c6")),
        E("sender",
          O(<<E("reference", PatientRef), E("type", Str("Patient")),
              E("extension",
                L(<<O(<<E("url", S(PlainUrl)),
                        E("valueReference",
                          O(<<E("reference", PatientRef),
                              E("type", S(PractitionerRoleTag))>>))>>)>>))>>))>>)

\* a Communication each pass has something to do on
CommEveryPass ==
    O(<<E("resourceType", Str("Communication")), E("id", Str("c7")),
        E("status", Str("completed")),
        E("subject", O(<<E("reference", PatientRef),
                         E("extension",
                           L(<<Ext(DeniedUrl), Ext(PlainUrl)>>))>>)),
        E("sender", O(<<E("reference", RoleRef("r1")),
                        E("type", S(PractitionerRoleTag))>>))>>)

\* RelatedPerson documents: no relationship, none, one, two and three
\* relationships (with a text, without one, not an object), an object, null
Concept(text) == O(<<E("text", Str(text))>>)

Relationships ==
    {L(<<>>), L(<<Concept("A")>>), L(<<Concept("A"), Concept("B")>>),
     L(<<Concept("A"), Concept("B"), Concept("C")>>),
     L(<<Concept("A"), O(<<E("coding", L(<<OtherCoding>>))>>)>>),
     L(<<Concept("A"), Str("B")>>), L(<<Str("A"), Concept("B")>>),
     Concept("A"), O(<<E("text", Str("A")), E("id", Str("B"))>>), NoneV}

RelatedPersonDoc(relationship) ==
    O(<<E("resourceType", Str("RelatedPerson")), E("id", Str("rp1")),
        E("relationship", relationship)>>)

RelatedPersonDocs ==
    {RelatedPersonDoc(relationship) : relationship \in Relationships}
    \cup {O(<<E("resourceType", Str("RelatedPerson")), E("id", Str("rp1"))>>)}

\* Consent documents: no identifier, none, one, two and three identifiers,
\* a single identifier object, null
Identifier(value) == O(<<E("value", Str(value))>>)

Identifiers ==
    {L(<<>>), L(<<Identifier("A")>>), L(<<Identifier("A"), Identifier("B")>>),
     L(<<Identifier("A"), Identifier("B"), Identifier("C")>>),
     L(<<Str("A"), Str("B")>>), Identifier("A"), NoneV}

ConsentDoc(identifier) ==
    O(<<E("resourceType", Str("Consent")), E("id", Str("cs1")),
        E("identifier", identifier), E("status", Str("active"))>>)

ConsentDocs ==
    {ConsentDoc(identifier) : identifier \in Identifiers}
    \cup {O(<<E("resourceType", Str("Consent")), E("id", Str("cs1")),
              E("status", Str("active"))>>)}

\* documents with a status: the status the rule sets set apart, statuses
\* their tables map, one no table holds, the empty one; with and without a
\* reason
StatusValues ==
    {Str("not-done"), Str("on-hold"), Str("completed"), Str("active"),
     Str("proposed"), Str("draft"), S(<<>>)}

StatusKey(resource_type) ==
    IF resource_type = "Goal" THEN "lifecycleStatus" ELSE "status"

StatusDoc(resource_type, status, reasons) ==
    O(<<E("resourceType", Str(resource_type)), E("id", Str("s1")),
        E(StatusKey(resource_type), status)>>
      \o [i \in 1..Len(reasons) |-> E("statusReason", reasons[i])])

StatusDocs ==
    {StatusDoc(resource_type, status, reasons) :
        resource_type \in {"Procedure", "Goal", "Communication"},
        status \in StatusValues,
        reasons \in {<<>>, <<Concept("R")>>}}

\* a Communication without id whose sender is a role reference
CommNoId ==
    O(<<E("resourceType", Str("Communication")),
        E("sender", O(<<E("reference", RoleRef("r1"))>>))>>)

\* documents without id, and one whose id is the empty string
IdentityDocs ==
    {RoleNoId, RoleEmptyId, CommNoId,
     O(<<E("resourceType", Str("Goal")), E("lifecycleStatus", Str("active"))>>)}

OtherDocs == {CommMalformed, GoalMalformed, ProcedureMalformed,
              CommPassRaises, GoalPassRaises, Phase2Raises, ValueSetDoc,
              PatienttDoc, RoleA, CommTwoRoles, CommNestedMarker,
              CommEveryPass}
             \cup CodedProcedures \cup TypedReferenceDocs
             \cup RelatedPersonDocs \cup ConsentDocs \cup StatusDocs
             \cup IdentityDocs

\* the indexes Phase 1 can hand over: empty, r1 with a practitioner (with
\* and without display), r1 without practitioner, r1 whose practitioner
\* has no reference, r1 whose practitioner is a string
IndexOf(role) == (<<"r1">> :> role)
RefIndexes ==
    {EmptyIndex, IndexOf(RoleA), IndexOf(RoleB),
     IndexOf(RoleDoc(Str("r1"), NoneV)),
     IndexOf(RoleDoc(Str("r1"), O(<<E("display", Str("Dr. A"))>>))),
     IndexOf(RoleDoc(Str("r1"), PRef("a")))}

PassInputs ==
    (RefDocs \X RefIndexes)
    \cup ((ExtDocs \cup OtherDocs) \X {EmptyIndex, IndexOf(RoleA)})

BatchIdle ==
    /\ input_dirs = <<>> /\ resource_types = {} /\ pc = "off"
    /\ all_input_files = <<>> /\ scan = 0
    /\ practitioner_role_resources = EmptyIndex
    /\ next_file = 0
    /\ success_count = 0 /\ error_count = 0 /\ skipped_count = 0
    /\ outcomes = <<>> /\ written = <<>>

----------------------------------------------------------------------------
(* transform_resource, pass by pass *)

PassInit ==
    /\ BatchIdle
    /\ stage = "input"
    /\ \E in \in PassInputs : src = in[1] /\ idx = in[2]
    /\ source_document = src
    /\ tree = src
    /\ prev = NoneV
    /\ unresolved_warnings = 0
    /\ data_loss_events = <<>>
    /\ rule_set = ""
    /\ stats = NewStats /\ calls = NoCalls

\* what becomes of an exception inside a rule set: Communication, Procedure,
\* PractitionerRole and RelatedPerson catch it and return None; Goal and
\* Consent let it through
on_rule_set_exception(resource_type) ==
    IF resource_type \in {"Goal", "Consent"} THEN "error" ELSE "none"

\* the pipeline after a step that gave v
step_result(resource_type, v, reached) ==
    Then(v, LAMBDA x :
        IF Raised(x)
        THEN [stage |-> on_rule_set_exception(resource_type), tree |-> NoneV]
        ELSE [stage |-> reached, tree |-> x])

\* what only the Procedure rule set does after the two passes
rule_set_tail(resource_type, v) ==
    IF resource_type = "Procedure" THEN Bind(v, _clean_empty_extensions)
    ELSE v

Advance(r, source) ==
    /\ stage' = r.stage
    /\ tree' = r.tree
    /\ prev' = tree
    /\ source_document' = source
    /\ UNCHANGED <<src, idx, rule_set, stats, calls>>
    /\ UNCHANGED batchVars

\* lines 154-164: deny set, registry, the rule set's own rules
Dispatch ==
    /\ stage = "input"
    /\ UNCHANGED unresolved_warnings
    /\ data_loss_events' =
           IF ResourceTypeOf(src) \in DenySet
              \/ ResourceTypeOf(src) \notin transformers
           THEN data_loss_events
           ELSE data_loss_events \o data_loss_logged(ResourceTypeOf(src), src)
    /\ Advance(IF ResourceTypeOf(src) \in DenySet
               THEN [stage |-> "none", tree |-> NoneV]
               ELSE IF ResourceTypeOf(src) \notin transformers
               THEN [stage |-> "error", tree |-> NoneV]
               ELSE step_result(ResourceTypeOf(src),
                                per_type_rules(ResourceTypeOf(src), src),
                                "draft"),
               IF ResourceTypeOf(src) \in DenySet
                  \/ ResourceTypeOf(src) \notin transformers
               THEN source_document
               ELSE source_after_rules(
                        ResourceTypeOf(src), source_document,
                        per_type_rules(ResourceTypeOf(src), src)))

\* the reference-cleaning pass that ends the rule set
CleanReferences ==
    /\ stage = "draft"
    /\ UNCHANGED <<unresolved_warnings, data_loss_events>>
    /\ Advance(step_result(ResourceTypeOf(src),
                           clean_references_in_object(tree), "cleaned"),
               source_document)

\* the extension pass that ends the rule set
RewriteExtensions ==
    /\ stage = "cleaned"
    /\ UNCHANGED <<unresolved_warnings, data_loss_events>>
    /\ Advance(step_result(ResourceTypeOf(src),
                           rule_set_tail(ResourceTypeOf(src),
                                         transform_extensions_in_object(tree)),
                           "rewritten"),
               source_after_extension_pass(ResourceTypeOf(src),
                                           source_document, prev))

\* lines 166-170: Phase 2, then the document is returned
ResolveReferences ==
    /\ stage = "rewritten"
    /\ unresolved_warnings' =
           unresolved_warnings + warnings_if_available(tree, idx)
    /\ UNCHANGED data_loss_events
    /\ Advance(IF Raised(phase2_if_available(tree, idx))
               THEN [stage |-> "error", tree |-> NoneV]
               ELSE [stage |-> "output",
                     tree |-> phase2_if_available(tree, idx)],
               source_document)

----------------------------------------------------------------------------
(* BaseTransformer.transform_file and the statistics of a rule set *)

MaxCalls == 6

Counted(s, key) == [s EXCEPT ![key] = @ + 1]

\* variant of stats_after_transform_file that counts the file as processed
\* before it is loaded
stats_counting_before_load(s, resource_type, content) ==
    Then(Counted(s, "processed"), LAMBDA opened :
        IF Raised(content) \/ ~IsDict(content) THEN Counted(opened, "errors")
        ELSE IF Get(content, "resourceType") # Str(resource_type)
        THEN Counted(opened, "skipped")
        ELSE Then(rule_set_transform(resource_type, content), LAMBDA stu3 :
            IF Raised(stu3) THEN Counted(opened, "errors")
            ELSE IF IsNone(stu3) THEN Counted(opened, "skipped")
            ELSE Counted(opened, "transformed")))

\* lines 68-102 of base_transformer.py: the statistics after the file with
\* this content was handled by the rule set of this type
stats_after_transform_file(s, resource_type, content) ==
    IF Raised(content) THEN Counted(s, "errors")
    ELSE Then(Counted(s, "processed"), LAMBDA loaded :
        IF ~IsDict(content) THEN Counted(loaded, "errors")
        ELSE IF Get(content, "resourceType") # Str(resource_type)
        THEN Counted(loaded, "skipped")
        ELSE Then(rule_set_transform(resource_type, content), LAMBDA stu3 :
            IF Raised(stu3) THEN Counted(loaded, "errors")
            ELSE IF IsNone(stu3) THEN Counted(loaded, "skipped")
            ELSE Counted(loaded, "transformed")))

\* variant of reset_stats that resets the processed counter only
reset_stats_processed_only(s) == [s EXCEPT !.processed = 0]

\* lines 108-111
reset_stats(s) == [key \in DOMAIN s |-> 0]

\* a rule set object was made (lines 19-25)
StatsInit ==
    /\ BatchIdle
    /\ stage = "off" /\ src = NoneV /\ source_document = NoneV
    /\ tree = NoneV /\ prev = NoneV /\ idx = EmptyIndex
    /\ unresolved_warnings = 0 /\ data_loss_events = <<>>
    /\ rule_set \in transformers
    /\ stats = NewStats /\ calls = NoCalls

TransformFileCall ==
    /\ rule_set # ""
    /\ calls.made < MaxCalls
    /\ \E content \in BatchContents :
           /\ stats' = stats_after_transform_file(stats, rule_set, content)
           /\ calls' = [made |-> calls.made + 1,
                        unloaded |-> calls.unloaded
                                     + (IF Raised(content) THEN 1 ELSE 0)]
    /\ UNCHANGED <<stage, src, source_document, tree, prev, idx,
                   unresolved_warnings, data_loss_events, rule_set>>
    /\ UNCHANGED batchVars

ResetStats ==
    /\ rule_set # ""
    /\ stats' = reset_stats(stats)
    /\ calls' = NoCalls
    /\ UNCHANGED <<stage, src, source_document, tree, prev, idx,
                   unresolved_warnings, data_loss_events, rule_set>>
    /\ UNCHANGED batchVars

StatsNext == TransformFileCall \/ ResetStats

StatsSpec == StatsInit /\ [][StatsNext]_vars

----------------------------------------------------------------------------
(* ProcedureTransformer._add_consultation_category_for_acp, applied again   *)
(* and again to the draft it gave                                           *)

\* the codings of code and the categories of the drafts it is applied to
EnrichmentCodings ==
    {<<AcpCoding>>, <<OtherCoding>>, <<OtherCoding, AcpCoding>>,
     <<AcpCoding, Str("x")>>, <<Str("x"), AcpCoding>>}

EnrichmentCategories ==
    Categories
    \cup {O(<<>>), L(<<>>), Str("coding"),
          O(<<E("coding", L(<<OtherCoding, ConsultationCoding>>))>>),
          O(<<E("coding", L(<<ConsultationCoding, ConsultationCoding>>))>>),
          O(<<E("coding", L(<<O(<<E("code", Str("11429006")),
                                  E("system", SnomedSystem)>>)>>))>>),
          O(<<E("coding", L(<<Str("x")>>))>>),
          O(<<E("coding", O(<<>>))>>),
          O(<<E("text", Str("t")), E("coding", L(<<OtherCoding>>))>>)}

EnrichmentDraft(codings, category) ==
    O(<<E("resourceType", Str("Procedure")), E("id", Str("p1")),
        E("status", Str("completed")),
        E("code", O(<<E("coding", L(codings))>>))>>
      \o (IF IsNone(category) THEN <<>> ELSE <<E("category", category)>>))

EnrichmentDrafts ==
    {EnrichmentDraft(codings, category) :
        codings \in EnrichmentCodings, category \in EnrichmentCategories}

EnrichInit ==
    /\ BatchIdle
    /\ stage = "enrich"
    /\ src \in EnrichmentDrafts
    /\ tree = src
    /\ prev = NoneV
    /\ source_document = NoneV /\ idx = EmptyIndex
    /\ unresolved_warnings = 0 /\ data_loss_events = <<>>
    /\ rule_set = "Procedure" /\ stats = NewStats /\ calls = NoCalls

\* one more application to the draft; an exception ends the rule set
ApplyEnrichment ==
    /\ stage = "enrich"
    /\ prev' = tree
    /\ tree' = procedure_consultation_category(tree)
    /\ stage' = IF Raised(procedure_consultation_category(tree))
                THEN "none" ELSE "enrich"
    /\ UNCHANGED <<src, source_document, idx, unresolved_warnings,
                   data_loss_events, rule_set, stats, calls>>
    /\ UNCHANGED batchVars

EnrichSpec == EnrichInit /\ [][ApplyEnrichment]_vars

PassNext == \/ Dispatch
            \/ CleanReferences
            \/ RewriteExtensions
            \/ ResolveReferences

PassSpec == PassInit /\ [][PassNext]_vars

\* the passes taken one by one give what transform_resource gives
PipelineAgrees ==
    /\ stage = "output" => tree = transform_resource(src, idx)
    /\ stage = "none" => IsNone(transform_resource(src, idx))
    /\ stage = "error" => Raised(transform_resource(src, idx))

----------------------------------------------------------------------------
(* Properties of transform_directories *)

\* the documents of the files of every existing input directory
BatchDocs ==
    UNION {{input_dirs[d].files[j].content : j \in DOMAIN input_dirs[d].files} :
              d \in {e \in DOMAIN input_dirs : input_dirs[e].exists}}

\* a PractitionerRole document with a non-empty id
IsRoleWithId(doc) ==
    /\ IsDict(doc)
    /\ Get(doc, "resourceType") = Str("PractitionerRole")
    /\ IsStr(Get(doc, "id"))
    /\ Get(doc, "id").s # <<>>

\* the i-th file of the batch, and whether an output was written for it
FileDoc(i) == all_input_files[i].content
WrittenFrom(i) == \E k \in DOMAIN written : written[k].from = i

\* the loop is about to handle a document that transform_file will get
AboutToTransform ==
    /\ pc = "transform"
    /\ next_file < Len(all_input_files)
    /\ IsDict(FileDoc(next_file + 1))
    /\ \/ resource_types = {}
       \/ ResourceTypeOf(FileDoc(next_file + 1)) \in resource_types

\* the loop is about to handle a document, filtered out or not
AboutToHandle ==
    /\ pc = "transform"
    /\ next_file < Len(all_input_files)
    /\ IsDict(FileDoc(next_file + 1))

CountedAsError ==
    /\ error_count' = error_count + 1
    /\ success_count' = success_count
    /\ skipped_count' = skipped_count

CountedAsSkipped ==
    /\ skipped_count' = skipped_count + 1
    /\ success_count' = success_count
    /\ error_count' = error_count

\* the loop goes on with the next file and has written nothing
NothingWrittenLoopGoesOn ==
    /\ written' = written
    /\ next_file' = next_file + 1
    /\ pc' = "transform"


\* C1: no document is transformed while Phase 1 is running, and once the
\* transformation loop runs the index holds, for every PractitionerRole
\* document with a non-empty id in any file of any existing input directory,
\* a PractitionerRole document of the batch with that id (whatever the
\* directory of the document being transformed and whatever the
\* resource_types filter).
C1_Phase1Barrier ==
    /\ pc \in {"collect", "phase1"} =>
           next_file = 0 /\ outcomes = <<>> /\ written = <<>>
    /\ pc \in {"transform", "summary"} =>
           \A doc \in BatchDocs :
               IsRoleWithId(doc) =>
                   /\ Get(doc, "id").s \in DOMAIN practitioner_role_resources
                   /\ practitioner_role_resources[Get(doc, "id").s] \in BatchDocs
                   /\ IsRoleWithId(practitioner_role_resources[Get(doc, "id").s])
                   /\ Get(practitioner_role_resources[Get(doc, "id").s], "id")
                          = Get(doc, "id")

\* a Communication of the first directory was resolved through a role of the
\* second directory, with a filter that leaves PractitionerRole out
C1_Witness ==
    /\ pc = "summary"
    /\ resource_types = {"Communication"}
    /\ Len(input_dirs[1].files) = 1
    /\ input_dirs[1].files[1].content = CommToRole
    /\ input_dirs[2].exists
    /\ Len(input_dirs[2].files) = 1
    /\ input_dirs[2].files[1].content = RoleA
    /\ Len(written) = 1
    /\ Get(Get(written[1].doc, "sender"), "reference") = PRef("p1")

\* the five types of the deny set, as the specification lists them
FixedDenySet == {"ValueSet", "StructureDefinition", "ImplementationGuide",
                 "Parameters", "SearchParameter"}

\* neither in the deny set nor registered
IsUnsupported(doc) ==
    /\ ResourceTypeOf(doc) \notin FixedDenySet
    /\ ResourceTypeOf(doc) \notin transformers

\* C7 (amended): a document whose resourceType is neither in the deny set nor
\* registered, and that the resource_types filter (if any) lets through, is
\* counted as one error; nothing is written for it and the loop goes on with
\* the next file.
C7_UnsupportedIsError ==
    [][(AboutToTransform /\ IsUnsupported(FileDoc(next_file + 1)))
           => (CountedAsError /\ NothingWrittenLoopGoesOn
               /\ outcomes' = Append(outcomes, "error"))]_vars

\* an unsupported document let through by the filter got its error and the
\* next file was handled after it
C7_Witness ==
    /\ resource_types = {"Patientt", "ValueSet"}
    /\ next_file = 2
    /\ FileDoc(1) = PatienttDoc
    /\ outcomes[1] = "error"
    /\ error_count >= 1
    /\ ~WrittenFrom(1)

\* C7 as stated: every document whose resourceType is neither in the deny set
\* nor registered is counted as one error.
C7_AsStated ==
    [][(AboutToHandle /\ IsUnsupported(FileDoc(next_file + 1)))
           => (CountedAsError /\ NothingWrittenLoopGoesOn)]_vars

\* C8: a document whose resourceType is one of ValueSet, StructureDefinition,
\* ImplementationGuide, Parameters, SearchParameter is counted as skipped and
\* never as an error, nothing is written for it, and dispatch gives None for
\* it whatever the index holds.
C8_DenySetSkipped ==
    [][(AboutToHandle /\ ResourceTypeOf(FileDoc(next_file + 1)) \in FixedDenySet)
           => (/\ CountedAsSkipped
               /\ NothingWrittenLoopGoesOn
               /\ outcomes' = Append(outcomes, "skipped")
               /\ \A index \in RefIndexes :
                      IsNone(transform_resource(FileDoc(next_file + 1),
                                                index)))]_vars

\* a ValueSet reached transform_file (no filter, or a filter that names it)
\* and was skipped
C8_Witness ==
    /\ resource_types \in {{}, {"Patientt", "ValueSet"}}
    /\ next_file >= 1
    /\ FileDoc(1) = ValueSetDoc
    /\ outcomes[1] = "skipped"
    /\ skipped_count >= 1
    /\ error_count = 0
    /\ ~WrittenFrom(1)

\* C9: when the registered rule set returns None for a document, dispatch
\* gives None (Phase 2 has nothing to work on), nothing is written and the
\* document is counted as skipped, not as success or error.
C9_RuleSetNoneSkipped ==
    [][(/\ AboutToTransform
        /\ ResourceTypeOf(FileDoc(next_file + 1)) \in transformers
        /\ IsNone(rule_set_transform(ResourceTypeOf(FileDoc(next_file + 1)),
                                     FileDoc(next_file + 1))))
           => (/\ CountedAsSkipped
               /\ NothingWrittenLoopGoesOn
               /\ outcomes' = Append(outcomes, "skipped")
               /\ IsNone(transform_resource(FileDoc(next_file + 1),
                                            practitioner_role_resources)))]_vars

\* a Communication whose rule set caught its own exception was skipped in a
\* run whose index is not empty
C9_Witness ==
    /\ next_file >= 1
    /\ FileDoc(1) = CommMalformed
    /\ resource_types = {}
    /\ DOMAIN practitioner_role_resources # {}
    /\ outcomes[1] = "skipped"
    /\ skipped_count = 1
    /\ ~WrittenFrom(1)

\* every collected file has exactly one outcome and the counters add up
AllFilesHaveOneOutcome ==
    /\ Len(outcomes) = Len(all_input_files)
    /\ \A i \in DOMAIN outcomes : outcomes[i] \in {"success", "skipped", "error"}
    /\ success_count = Cardinality({i \in DOMAIN outcomes : outcomes[i] = "success"})
    /\ skipped_count = Cardinality({i \in DOMAIN outcomes : outcomes[i] = "skipped"})
    /\ error_count = Cardinality({i \in DOMAIN outcomes : outcomes[i] = "error"})

\* C10: once files are collected, transform_directories reaches its summary
\* with exactly one outcome (success, skipped or error) for every collected
\* file, whatever errors the documents raise on the way.
C10_ErrorIsolation ==
    (pc = "phase1") ~> (pc = "summary" /\ AllFilesHaveOneOutcome)

\* the summary was reached after an unreadable file, read for the filter,
\* was counted as an error and the next document was transformed
C10_Witness ==
    /\ pc = "summary"
    /\ resource_types = {"Communication"}
    /\ Len(all_input_files) = 2
    /\ FileDoc(1) = BadFile
    /\ FileDoc(2) = CommToRole
    /\ outcomes = <<"error", "success">>
    /\ WrittenFrom(2)

----------------------------------------------------------------------------
(* Properties of the passes *)

\* a reference node whose reference is "PractitionerRole/<id>", and its id
IsRoleReference(node) ==
    /\ IsDict(node)
    /\ IsStr(Get(node, "reference"))
    /\ Len(Get(node, "reference").s) = 2
    /\ Get(node, "reference").s[1] = "PractitionerRole/"
RoleIdOf(node) == <<Get(node, "reference").s[2]>>

\* the walk of Phase 2 gets to the node at path p: no node above it is
\* replaced as a whole
Reached(t, p) ==
    \A k \in 0..(Len(p) - 1) : ~looks_like_role_reference(At(t, SubSeq(p, 1, k)))

\* the paths of the role reference nodes Phase 2 gets to
RoleReferencePaths(t) ==
    {p \in Paths(t) : IsRoleReference(At(t, p)) /\ Reached(t, p)}

\* the id is in the index and the role document has a practitioner reference
IsHit(node, index) ==
    /\ RoleIdOf(node) \in DOMAIN index
    /\ IsDict(Get(index[RoleIdOf(node)], "practitioner"))
    /\ Truthy(Get(Get(index[RoleIdOf(node)], "practitioner"), "reference"))

\* the value when it is not empty, absent otherwise
IfPresent(v) == IF Truthy(v) THEN v ELSE NoneV

\* out carries exactly one extension: the practitionerrole-reference
\* extension whose valueReference is the original reference of node, with
\* the original display when there was one
KeepsRoleInExtension(out, node) ==
    /\ IsList(Get(out, "extension"))
    /\ Len(Get(out, "extension").c) = 1
    /\ Get(Get(out, "extension").c[1].val, "url") =
           Str("http://nictiz.nl/fhir/StructureDefinition/practitionerrole-reference")
    /\ Get(Get(Get(out, "extension").c[1].val, "valueReference"), "reference")
           = Get(node, "reference")
    /\ Get(Get(Get(out, "extension").c[1].val, "valueReference"), "display")
           = IfPresent(Get(node, "display"))

\* C2: in the document Phase 2 returns, every role reference node the walk
\* gets to whose id is in the index and whose role document has a
\* practitioner reference carries the practitioner's reference, the
\* practitioner's display (none when the practitioner has none), and exactly
\* one extension: the practitionerrole-reference extension holding the
\* original reference and, when there was one, the original display.
C2_ResolutionHit ==
    stage = "output" =>
        \A p \in RoleReferencePaths(prev) :
            IsHit(At(prev, p), idx) =>
                /\ Get(At(tree, p), "reference") =
                       Get(Get(idx[RoleIdOf(At(prev, p))], "practitioner"),
                           "reference")
                /\ Get(At(tree, p), "display") =
                       IfPresent(Get(Get(idx[RoleIdOf(At(prev, p))],
                                         "practitioner"), "display"))
                /\ KeepsRoleInExtension(At(tree, p), At(prev, p))

\* a role reference with a display, in a list, was resolved to a
\* practitioner that has a display
C2_Witness ==
    /\ stage = "output"
    /\ idx = IndexOf(RoleA)
    /\ \E p \in RoleReferencePaths(prev) :
           /\ Len(p) = 2
           /\ IsHit(At(prev, p), idx)
           /\ Get(At(prev, p), "display") = Str("Role 1")
           /\ Get(At(tree, p), "display") = Str("Dr. A")

\* C3 (amended): when Phase 2 runs (the index is not empty), every role
\* reference node the walk gets to whose id is not in the index, or whose
\* role document has no practitioner reference, keeps its reference and its
\* non-empty display, and still gets the one practitionerrole-reference
\* extension holding the original reference and display; when the index is
\* empty Phase 2 is not run and the document is returned as it was.
C3_ResolutionMiss ==
    stage = "output" =>
        /\ DOMAIN idx = {} => tree = prev
        /\ DOMAIN idx # {} =>
               \A p \in RoleReferencePaths(prev) :
                   ~IsHit(At(prev, p), idx) =>
                       /\ Get(At(tree, p), "reference") =
                              Get(At(prev, p), "reference")
                       /\ Get(At(tree, p), "display") =
                              IfPresent(Get(At(prev, p), "display"))
                       /\ KeepsRoleInExtension(At(tree, p), At(prev, p))

\* a reference to a role that is not in a non-empty index went through
\* Phase 2
C3_Witness ==
    /\ stage = "output"
    /\ idx = IndexOf(RoleA)
    /\ \E p \in RoleReferencePaths(prev) :
           /\ Get(At(prev, p), "reference") = RoleRef("r9")
           /\ ~Has(At(prev, p), "extension")
           /\ Get(At(tree, p), "reference") = RoleRef("r9")

\* C3 as stated: a role reference node that is not resolved keeps its
\* reference and display and gets no extension.
C3_AsStated ==
    stage = "output" =>
        \A p \in RoleReferencePaths(prev) :
            ~IsHit(At(prev, p), idx) =>
                /\ Get(At(tree, p), "reference") = Get(At(prev, p), "reference")
                /\ Get(At(tree, p), "display") = Get(At(prev, p), "display")
                /\ Get(At(tree, p), "extension") = Get(At(prev, p), "extension")

\* C4 as stated: after the reference-cleaning pass no object node of the
\* document, at any depth, has both a reference key and a type key.
C4_AsStated ==
    stage = "cleaned" =>
        \A node \in Nodes(tree) : ~(Has(node, "reference") /\ Has(node, "type"))

\* the extension nodes of a tree: the members of the lists under the keys
\* extension and modifierExtension of any object node
ExtensionNodes(t) ==
    UNION {{Get(node, key).c[i].val : i \in 1..Len(Get(node, key).c)} :
              node \in Nodes(t), key \in {"extension", "modifierExtension"}}

\* C5 as stated: no extension node of an output document, wherever it is
\* held, has a url of the denylist.
C5_AsStated ==
    stage = "output" =>
        \A ext \in ExtensionNodes(tree) :
            Get(ext, "url") #
                Str("http://hl7.org/fhir/StructureDefinition/patient-relatedPerson")

\* C6: no object node of an output document, at any depth, has an extension
\* key bound to an empty list.
C6_NoEmptyExtensionList ==
    stage = "output" =>
        \A node \in Nodes(tree) :
            ~(IsList(Get(node, "extension")) /\ Get(node, "extension").c = <<>>)

\* an output outside the Procedure rule set whose input held an empty
\* extension list and a nested extension list of denylisted extensions only
C6_Witness ==
    /\ stage = "output"
    /\ ResourceTypeOf(src) = "Communication"
    /\ \E node \in Nodes(src) :
           /\ Get(node, "extension") = L(<<>>)
           /\ Has(node, "url")
    /\ \E node \in Nodes(src) :
           /\ Get(node, "url") = S(PlainUrl)
           /\ Get(node, "extension") = L(<<Ext(DeniedUrl)>>)
    /\ \E node \in Nodes(tree) : Get(node, "url") = S(PlainUrl)

----------------------------------------------------------------------------
(* The index after Phase 1 *)

\* C11: once Phase 1 is done, no step of the transformation loop (whether
\* the file is transformed, skipped or fails) and no later step changes the
\* PractitionerRole index: its ids and its role documents stay as Phase 1
\* left them.
C11_IndexReadOnly ==
    [][(pc \in {"transform", "summary"})
           => (practitioner_role_resources' = practitioner_role_resources)]_vars

\* the batch ended with a non-empty index after it transformed a
\* PractitionerRole document whose id is that of another, indexed role
C11_Witness ==
    /\ pc = "summary"
    /\ DOMAIN practitioner_role_resources = {<<"r1">>}
    /\ practitioner_role_resources[<<"r1">>] = RoleA
    /\ \E i \in 1..Len(all_input_files) :
           /\ FileDoc(i) = RoleB
           /\ outcomes[i] = "success"

----------------------------------------------------------------------------
(* The caller's document *)

\* C12: transform_resource never mutates the source document: at every
\* point of the pipeline, and whatever its result, the caller's document is
\* the document that was passed in.
C12_AsStated == stage # "off" => source_document = src

----------------------------------------------------------------------------
(* Index collisions *)

\* the positions, in scan order, of the files that declare the role id
ScanPositionsOf(id) ==
    {i \in DOMAIN phase1_files(input_dirs) :
        /\ IsRoleWithId(phase1_files(input_dirs)[i].content)
        /\ Get(phase1_files(input_dirs)[i].content, "id").s = id}

ScannedRoleIds ==
    {Get(phase1_files(input_dirs)[i].content, "id").s :
        i \in {j \in DOMAIN phase1_files(input_dirs) :
                  IsRoleWithId(phase1_files(input_dirs)[j].content)}}

\* C13: after Phase 1 the index has exactly one entry per distinct non-empty
\* id declared by a PractitionerRole document of the input, and the entry of
\* an id is the document declaring it that comes last in scan order
\* (directories in the order given, files in enumeration order).
C13_LastWriteWins ==
    pc \in {"transform", "summary"} =>
        /\ DOMAIN practitioner_role_resources = ScannedRoleIds
        /\ \A id \in ScannedRoleIds :
               \E last \in ScanPositionsOf(id) :
                   /\ \A i \in ScanPositionsOf(id) : i <= last
                   /\ practitioner_role_resources[id] =
                          phase1_files(input_dirs)[last].content

\* Phase 1 is over; two different documents declared the id r1, in
\* different directories, and the index holds the later one
C13_Witness ==
    /\ pc = "transform"
    /\ Len(input_dirs) = 2
    /\ input_dirs[1].files # <<>> /\ input_dirs[2].files # <<>>
    /\ input_dirs[1].files[1].content = RoleB
    /\ input_dirs[2].files[1].content = RoleA
    /\ practitioner_role_resources[<<"r1">>] = RoleA

----------------------------------------------------------------------------
(* Phase 2 on malformed input *)

\* C14: resolution never raises: whatever the document tree and the index
\* hold (a role document whose practitioner is not an object, a matched node
\* whose reference is not a string), the step that runs Phase 2 on the
\* rewritten document ends with a document.
C14_AsStated == [][(stage = "rewritten") => (stage' = "output")]_vars

\* a reference node that carries the type marker of a role
IsTypedAsRole(node) ==
    /\ IsDict(node)
    /\ Has(node, "reference")
    /\ Get(node, "type") = S(PractitionerRoleTag)

\* out was made by Phase 2 from a role reference: it carries the
\* practitionerrole-reference extension
HandledAsRoleReference(out) ==
    /\ IsList(Get(out, "extension"))
    /\ \E i \in DOMAIN Get(out, "extension").c :
           Get(Get(out, "extension").c[i].val, "url") = S(RoleRefUrl)

\* C15: role references are detected by the type marker the input carries
\* before cleaning: when Phase 2 runs (the index is not empty), a reference
\* node of the input with type "PractitionerRole" is handled as a role
\* reference in the output, also when its reference does not start with
\* "PractitionerRole/".
C15_AsStated ==
    (stage = "output" /\ idx # EmptyIndex) =>
        \A i \in DOMAIN src.c :
            /\ (IsTypedAsRole(src.c[i].val) /\ Has(tree, src.c[i].key))
                   => HandledAsRoleReference(Get(tree, src.c[i].key))
            /\ (IsList(src.c[i].val) /\ IsList(Get(tree, src.c[i].key)))
                   => \A j \in DOMAIN src.c[i].val.c :
                          (/\ IsTypedAsRole(src.c[i].val.c[j].val)
                           /\ j \in DOMAIN Get(tree, src.c[i].key).c)
                              => HandledAsRoleReference(
                                     Get(tree, src.c[i].key).c[j].val)

----------------------------------------------------------------------------
(* What a resolution miss leaves behind *)

\* the nodes Phase 2 takes for role references: by their reference or by
\* their type
MatchedPaths(t) ==
    {p \in Paths(t) : /\ IsDict(At(t, p))
                      /\ looks_like_role_reference(At(t, p))
                      /\ Reached(t, p)}

\* the role document the reference names has a practitioner reference
Resolves(node, index) ==
    /\ IsStr(Get(node, "reference"))
    /\ \E id \in DOMAIN index :
           /\ id = Replace(Get(node, "reference").s, PractitionerRolePrefix, <<>>)
           /\ IsDict(Get(index[id], "practitioner"))
           /\ Truthy(Get(Get(index[id], "practitioner"), "reference"))

\* the role references Phase 2 gets to and does not resolve
MissPaths(t, index) == {p \in MatchedPaths(t) : ~Resolves(At(t, p), index)}

\* C16 as stated: when Phase 2 runs, every resolution miss increments a
\* resolution-failure counter by exactly one and a hit leaves it unchanged:
\* one of the counters the rule set object keeps grows by the number of
\* misses of the document.
C16_AsStated ==
    [][(/\ stage = "rewritten" /\ stage' = "output"
        /\ idx # EmptyIndex
        /\ MissPaths(tree, idx) # {})
           => (\E k \in DOMAIN stats :
                   stats'[k] = stats[k] + Cardinality(MissPaths(tree, idx)))]_vars

\* C16 (amended): when Phase 2 runs on a document and returns, every
\* resolution miss (role id not in the index, role document without a
\* practitioner, practitioner without a reference) has logged exactly one
\* "Could not resolve" warning and a hit has logged none; no counter of the
\* rule set object changes.
C16_MissLogsWarning ==
    [][(stage = "rewritten" /\ stage' = "output" /\ idx # EmptyIndex)
           => (/\ unresolved_warnings' =
                      unresolved_warnings + Cardinality(MissPaths(tree, idx))
               /\ stats' = stats)]_vars

\* Phase 2 returned a document that held a resolved role reference and two
\* unresolved ones; two warnings were logged
C16_Witness ==
    /\ stage = "output"
    /\ src = CommTwoRoles
    /\ idx = IndexOf(RoleA)
    /\ Cardinality(MissPaths(prev, idx)) = 2
    /\ \E p \in MatchedPaths(prev) : Resolves(At(prev, p), idx)
    /\ unresolved_warnings = 2
    /\ stats = NewStats /\ calls = NoCalls

----------------------------------------------------------------------------
(* The order of the passes *)

\* the steps a transform_resource call can take
PassOrder ==
    {<<"input", "draft">>, <<"draft", "cleaned">>, <<"cleaned", "rewritten">>,
     <<"rewritten", "output">>}
    \cup ({"input", "draft", "cleaned"} \X {"none", "error"})
    \cup {<<"rewritten", "error">>}

\* C17: for every registered rule set and every document, the per-type rules
\* run first, then reference cleaning, then extension URL rewriting, and
\* Phase 2 only afterwards, on the rewritten result: what the rule set
\* returns is the draft after both structural passes in that order, and what
\* transform_resource returns is Phase 2 applied to it.
C17_PassOrder ==
    [][/\ <<stage, stage'>> \in PassOrder
       /\ (stage' = "cleaned") =>
              (/\ prev' = per_type_rules(ResourceTypeOf(src), src)
               /\ tree' = clean_references_in_object(prev'))
       /\ (stage' = "rewritten") =>
              tree' = rule_set_transform(ResourceTypeOf(src), src)
       /\ (stage' = "output") =>
              (/\ prev' = rule_set_transform(ResourceTypeOf(src), src)
               /\ tree' = phase2_if_available(prev', idx))]_vars

\* a document came out whose reference lost its type in cleaning, whose
\* extension list lost an entry in rewriting, and whose role reference was
\* replaced in Phase 2
C17_Witness ==
    /\ stage = "output"
    /\ src = CommEveryPass
    /\ tree # prev
    /\ \E node \in Nodes(src) :
           Has(node, "reference") /\ Has(node, "type")
    /\ \A node \in Nodes(prev) :
           ~(Has(node, "reference") /\ Has(node, "type"))
    /\ \E node \in Nodes(src) :
           /\ IsList(Get(node, "extension"))
           /\ \E i \in DOMAIN Get(node, "extension").c :
                  Get(Get(node, "extension").c[i].val, "url") = S(DeniedUrl)
    /\ \A node \in Nodes(tree) : Get(node, "url") # S(DeniedUrl)

----------------------------------------------------------------------------
(* The output directory *)

\* the writes whose file is in the output directory as it was written: no
\* later write went to the same name (open(output_file, 'w') replaces it)
OutputFiles ==
    {k \in DOMAIN written :
        \A later \in DOMAIN written :
            later > k => written[later].name # written[k].name}

\* C18: at the end of a batch every input document counted as a success has
\* its own output document, also when files of different input directories
\* share a file name, and a document counted as skipped or error has none.
C18_AsStated ==
    pc = "summary" =>
        /\ Cardinality(OutputFiles) = success_count
        /\ \A i \in DOMAIN outcomes :
               /\ outcomes[i] = "success" =>
                      \E k \in OutputFiles : written[k].from = i
               /\ outcomes[i] # "success" => ~WrittenFrom(i)

----------------------------------------------------------------------------
(* The statistics of a rule set *)

StatsKeys == {"processed", "transformed", "skipped", "errors"}

\* C19: the four counters of a rule set are never negative; a call of
\* BaseTransformer.transform_file decreases none of them; a counter goes
\* down only in reset_stats, which sets all four to zero.
C19_StatsMonotone ==
    [][/\ DOMAIN stats' = StatsKeys
       /\ \A key \in StatsKeys : stats'[key] \in Nat
       /\ \/ \A key \in StatsKeys : stats'[key] >= stats[key]
          \/ \A key \in StatsKeys : stats'[key] = 0]_vars

\* the Communication rule set was handed four files: one it could not
\* read, one it transformed, one of another type and one its rules failed on
C19_Witness ==
    /\ rule_set = "Communication"
    /\ stats = [processed |-> 3, transformed |-> 1, skipped |-> 2,
                errors |-> 1]

----------------------------------------------------------------------------
(* Independence of the document transformations *)

\* the index Phase 1 leaves, from the input directories alone
ScannedIndex ==
    [id \in ScannedRoleIds |->
        phase1_files(input_dirs)[
            CHOOSE last \in ScanPositionsOf(id) :
                \A i \in ScanPositionsOf(id) : i <= last].content]

\* what the loop makes of a file, given the filter and the index only
AloneOutcome(i) ==
    loop_body(all_input_files[i], resource_types, ScannedIndex)

----------------------------------------------------------------------------
(* Cardinality collapse *)

\* the multi-valued source field a rule set forces into a single value
CollapsedField(resource_type) ==
    CASE resource_type = "RelatedPerson" -> "relationship"
      [] resource_type = "Consent" -> "identifier"
      [] OTHER -> ""

\* the document holds more than one value under the collapsed field
HoldsSeveral(doc) ==
    /\ CollapsedField(ResourceTypeOf(doc)) # ""
    /\ IsList(Get(doc, CollapsedField(ResourceTypeOf(doc))))
    /\ Len(Get(doc, CollapsedField(ResourceTypeOf(doc))).c) > 1

\* the values after the first one, as an event cites them: by their text
\* when they have one
DiscardedValues(doc) ==
    [i \in 1..(Len(Get(doc, CollapsedField(ResourceTypeOf(doc))).c) - 1) |->
        LET value == Get(doc, CollapsedField(ResourceTypeOf(doc))).c[i + 1].val
        IN IF Has(value, "text") THEN Get(value, "text") ELSE value]

\* C21: whenever the rules of a rule set have collapsed a field that held
\* more than one value, the draft holds the first value under that field and
\* exactly one data-loss event was logged, citing the discarded values; no
\* rule set discards the extra values silently.
C21_AsStated ==
    [][(stage = "input" /\ stage' = "draft" /\ HoldsSeveral(src))
           => (/\ Get(tree', CollapsedField(ResourceTypeOf(src)))
                    = Get(src, CollapsedField(ResourceTypeOf(src))).c[1].val
               /\ data_loss_events'
                    = Append(data_loss_events,
                             L(DiscardedValues(src))))]_vars

----------------------------------------------------------------------------
(* Status remapping *)

\* the keys of the remapping table of a rule set
RemapKeys(resource_type) ==
    CASE resource_type = "Procedure" ->
             {"not-done", "entered-in-error", "in-progress", "on-hold",
              "aborted", "completed", "preparation", "stopped", "suspended",
              "unknown"}
      [] resource_type = "Goal" ->
             {"proposed", "planned", "accepted", "on-hold", "cancelled",
              "entered-in-error", "rejected", "active", "completed"}
      [] resource_type = "Communication" -> {"not-done"}
      [] OTHER -> {}

\* the status of the source document: lifecycleStatus for a Goal
SourceStatus(doc) == Get(doc, StatusKey(ResourceTypeOf(doc)))

\* the document has a status that no key of its rule set's table equals
HasUnmappedStatus(doc) ==
    /\ ResourceTypeOf(doc) \in {"Procedure", "Goal", "Communication"}
    /\ IsStr(SourceStatus(doc))
    /\ Truthy(SourceStatus(doc))
    /\ \A key \in RemapKeys(ResourceTypeOf(doc)) :
           SourceStatus(doc) # Str(key)

\* C22: when the rules of the Procedure, Goal or Communication rule set have
\* run on a document whose status is not a key of the remapping table, the
\* draft's status is the source status, unchanged.
C22_AsStated ==
    [][(stage = "input" /\ stage' = "draft" /\ HasUnmappedStatus(src))
           => (Get(tree', "status") = SourceStatus(src))]_vars

\* a Communication with a status went through the rules of its rule set
CommunicationStatusRemapped ==
    /\ stage = "input" /\ stage' = "draft"
    /\ ResourceTypeOf(src) = "Communication"
    /\ Has(src, "status")

\* C23 as stated: "not-done" with a reason R gives status "completed",
\* notDone "not-done" and notDoneReason R; every other status value is
\* copied unchanged, and neither notDone nor notDoneReason is set.
C23_AsStated ==
    [][CommunicationStatusRemapped
           => (/\ (Get(src, "status") = Str("not-done")
                   /\ Has(src, "statusReason"))
                    => (/\ Get(tree', "status") = Str("completed")
                        /\ Get(tree', "notDone") = Str("not-done")
                        /\ Get(tree', "notDoneReason")
                             = Get(src, "statusReason"))
               /\ Get(src, "status") # Str("not-done")
                    => (/\ Has(tree', "status")
                        /\ Get(tree', "status") = Get(src, "status")
                        /\ ~Has(tree', "notDone")
                        /\ ~Has(tree', "notDoneReason")))]_vars

\* C23: the rules of the Communication rule set turn status "not-done" into
\* status "completed" and notDone "not-done", with notDoneReason the
\* statusReason when there is one and no notDoneReason otherwise; they copy
\* every other non-empty status unchanged and set neither notDone nor
\* notDoneReason; for an empty status they set none of the three keys.
C23_CommunicationStatusRemap ==
    [][CommunicationStatusRemapped
           => (/\ Get(src, "status") = Str("not-done")
                    => (/\ Get(tree', "status") = Str("completed")
                        /\ Get(tree', "notDone") = Str("not-done")
                        /\ Has(tree', "notDoneReason")
                             = Has(src, "statusReason")
                        /\ Get(tree', "notDoneReason")
                             = Get(src, "statusReason"))
               /\ (Get(src, "status") # Str("not-done")
                   /\ Truthy(Get(src, "status")))
                    => (/\ Get(tree', "status") = Get(src, "status")
                        /\ ~Has(tree', "notDone")
                        /\ ~Has(tree', "notDoneReason"))
               /\ ~Truthy(Get(src, "status"))
                    => (/\ ~Has(tree', "status")
                        /\ ~Has(tree', "notDone")
                        /\ ~Has(tree', "notDoneReason")))]_vars

\* a Communication that was not done, for the reason R, was remapped
C23_Witness ==
    /\ stage = "draft"
    /\ src = StatusDoc("Communication", Str("not-done"), <<Concept("R")>>)
    /\ Get(tree, "status") = Str("completed")
    /\ Get(tree, "notDoneReason") = Concept("R")

----------------------------------------------------------------------------
(* The advance-care-planning enrichment, applied more than once *)

\* the consultation codings among the given codings
RECURSIVE ConsultationCodings(_)
ConsultationCodings(items) ==
    IF items = <<>> THEN 0
    ELSE (IF Get(Head(items).val, "code") = Str("11429006")
             /\ Get(Head(items).val, "system") = SnomedSystem
          THEN 1 ELSE 0)
         + ConsultationCodings(Tail(items))

\* how many times the category of the document holds the consultation coding
ConsultationCount(doc) ==
    IF IsList(Get(Get(doc, "category"), "coding"))
    THEN ConsultationCodings(Get(Get(doc, "category"), "coding").c)
    ELSE 0

\* C24: the enrichment applied to a document it has already been applied to
\* changes nothing, and a category that did not hold the consultation
\* coding holds it at most once after any number of applications.
C24_EnrichmentIdempotent ==
    [][(stage = "enrich" /\ stage' = "enrich")
           => (/\ ~IsNone(prev) => tree' = tree
               /\ ConsultationCount(src) = 0
                    => ConsultationCount(tree') <= 1)]_vars

\* the consultation coding was injected by the first application and the
\* second application has left the document as it was
C24_Witness ==
    /\ stage = "enrich"
    /\ has_acp_code(src) = "yes"
    /\ ConsultationCount(src) = 0
    /\ prev = tree
    /\ tree # src
    /\ ConsultationCount(tree) = 1

----------------------------------------------------------------------------
(* Unresolvable references and the rest of the index *)

\* the role ids Phase 2 looks up for the document
RoleIdsOf(t) ==
    {Replace(Get(At(t, p), "reference").s, PractitionerRolePrefix, <<>>) :
        p \in {q \in MatchedPaths(t) : IsStr(Get(At(t, q), "reference"))}}

\* the index holds none of the role ids of the document
Lacks(index, t) == DOMAIN index \cap RoleIdsOf(t) = {}

\* indexes to compare with: those of the runs, and indexes of other roles
ComparedIndexes ==
    RefIndexes
    \cup {(<<"r2">> :> RoleC), (<<"r2">> :> RoleC) @@ (<<"r3">> :> RoleA),
          (<<"r3">> :> RoleDoc(Str("r3"), NoneV))}

\* C25 as stated: a document with role references of which the index holds
\* none gets the same output with every index that holds none of them, the
\* empty one included.
C25_AsStated ==
    (stage = "output" /\ RoleIdsOf(prev) # {} /\ Lacks(idx, prev))
        => \A other \in ComparedIndexes :
               Lacks(other, prev) => transform_resource(src, other) = tree

\* C25: a document with role references of which the index holds none gets
\* the same output with every non-empty index that holds none of them,
\* whatever roles these indexes hold; with the empty index Phase 2 is not
\* run, and the document is returned as the passes left it.
C25_UnrelatedRolesDoNotMatter ==
    (stage = "output" /\ RoleIdsOf(prev) # {} /\ Lacks(idx, prev))
        => /\ idx = EmptyIndex => tree = prev
           /\ idx # EmptyIndex =>
                  \A other \in ComparedIndexes \ {EmptyIndex} :
                      Lacks(other, prev)
                          => transform_resource(src, other) = tree

\* a reference to the role r9 went through Phase 2 with an index of the
\* role r1: the output is the one an index of the role r2 gives, and not
\* the one the empty index gives
C25_Witness ==
    /\ stage = "output"
    /\ idx = IndexOf(RoleA)
    /\ RoleIdsOf(prev) = {<<"r9">>}
    /\ tree = transform_resource(src, (<<"r2">> :> RoleC))
    /\ tree # transform_resource(src, EmptyIndex)

----------------------------------------------------------------------------
(* The nodes Phase 2 rewrites *)

KeysOf(obj) == {obj.c[i].key : i \in 1..Len(obj.c)}

\* out is what Phase 2 builds for a role reference: reference, perhaps
\* display, and an extension list of one entry that was not rewritten in
\* its turn
IsRewrittenRoleReference(out) ==
    /\ IsDict(out)
    /\ {"reference", "extension"} \subseteq KeysOf(out)
    /\ KeysOf(out) \subseteq {"reference", "display", "extension"}
    /\ IsList(Get(out, "extension"))
    /\ Len(Get(out, "extension").c) = 1
    /\ KeysOf(Get(out, "extension").c[1].val) = {"url", "valueReference"}
    /\ KeysOf(Get(Get(out, "extension").c[1].val, "valueReference"))
           \subseteq {"reference", "display"}

\* C26: in the document Phase 2 returns, every node it took for a role
\* reference has the keys reference, extension and perhaps display and no
\* other key of the original node; its extension list has exactly one
\* entry, and the reference held in that entry was not rewritten: Phase 2
\* did not descend into the node it had built.
C26_RewrittenNodeShape ==
    (stage = "output" /\ idx # EmptyIndex)
        => \A p \in MatchedPaths(prev) :
               /\ IsRewrittenRoleReference(At(tree, p))
               /\ Get(Get(Get(At(tree, p), "extension").c[1].val,
                          "valueReference"), "reference")
                      = Get(At(prev, p), "reference")

\* Phase 2 rewrote a role reference that held another reference under its
\* identifier or in its extensions: the rewritten node has no identifier
C26_Witness ==
    /\ stage = "output"
    /\ idx # EmptyIndex
    /\ \E p \in MatchedPaths(prev) :
           /\ KeysOf(At(prev, p)) \cap {"identifier", "extension"} # {}
           /\ \E q \in Paths(At(prev, p)) :
                  q # <<>> /\ Has(At(At(prev, p), q), "reference")
           /\ ~Has(At(tree, p), "identifier")

----------------------------------------------------------------------------
(* Extension urls are mapped once *)

\* the urls of the extensions a tree holds under an extension key, at any
\* depth
ExtensionUrls(t) ==
    {Get(ext, "url").s :
        ext \in {e \in UNION {{Get(node, "extension").c[i].val :
                                  i \in 1..Len(Get(node, "extension").c)} :
                              node \in Nodes(t)} : IsStr(Get(e, "url"))}}

\* C27 as stated: the url of every extension the extension pass keeps, at
\* any nesting depth, is one application of the url mapping to the url of
\* an extension of the document the pass was given.
C27_AsStated ==
    [][(stage = "cleaned" /\ stage' = "rewritten")
       => (ExtensionUrls(tree') \subseteq
              {apply_global_extension_url_mappings(url) :
                  url \in ExtensionUrls(tree)})]_vars

----------------------------------------------------------------------------
(* The statistics of a rule set account for every call *)

OutcomeKeys == {"transformed", "skipped", "errors"}

OutcomesCounted(s) == s.transformed + s.skipped + s.errors

\* C28: every call of BaseTransformer.transform_file adds one to exactly one
\* of transformed, skipped and errors, so that their sum is the number of
\* calls since the statistics were new or reset; processed is at most that
\* sum, and equal to it exactly when no such call failed before the file was
\* loaded.
C28_StatsAccounting ==
    [][/\ (calls'.made = calls.made + 1)
          => (\E key \in OutcomeKeys :
                 /\ stats'[key] = stats[key] + 1
                 /\ \A other \in OutcomeKeys \ {key} :
                        stats'[other] = stats[other])
       /\ OutcomesCounted(stats') = calls'.made
       /\ stats'.processed <= OutcomesCounted(stats')
       /\ (stats'.processed = OutcomesCounted(stats'))
             <=> (calls'.unloaded = 0)]_vars

\* since the statistics were new or reset one file was transformed, one was
\* skipped and one could not be loaded: processed is one less than the sum
C28_Witness ==
    /\ rule_set = "PractitionerRole"
    /\ calls = [made |-> 3, unloaded |-> 1]
    /\ stats = [processed |-> 2, transformed |-> 1, skipped |-> 1,
                errors |-> 1]

----------------------------------------------------------------------------
(* The counters of transform_directories partition the batch *)

FilesCounted == success_count + error_count + skipped_count

\* C29: every file the transformation loop of transform_directories handles
\* adds one to exactly one of success_count, error_count and skipped_count,
\* and at the summary the three counters add up to the number of collected
\* files.
C29_CountersPartitionBatch ==
    [][/\ (next_file' = next_file + 1)
          => (\/ /\ success_count' = success_count + 1
                 /\ UNCHANGED <<error_count, skipped_count>>
              \/ /\ error_count' = error_count + 1
                 /\ UNCHANGED <<success_count, skipped_count>>
              \/ /\ skipped_count' = skipped_count + 1
                 /\ UNCHANGED <<success_count, error_count>>)
       /\ (pc' = "summary")
          => (FilesCounted' = Len(all_input_files'))]_vars

\* the summary of a filtered run of two files: the first did not parse, the
\* second was dropped by the filter
C29_Witness ==
    /\ pc = "summary"
    /\ resource_types = {"Communication"}
    /\ Len(all_input_files) = 2
    /\ FileDoc(1) = BadFile
    /\ FileDoc(2) = RoleA
    /\ error_count = 1 /\ skipped_count = 1 /\ success_count = 0

----------------------------------------------------------------------------
(* The identity of a document *)

\* C30: a document that transform_resource returns has the resourceType of
\* the input document, and the id of the input document when that has one;
\* it has no id when the input document has none.
C30_IdentityPreserved ==
    stage = "output" =>
        /\ Get(tree, "resourceType") = Get(src, "resourceType")
        /\ Has(tree, "id") <=> Has(src, "id")
        /\ Get(tree, "id") = Get(src, "id")

\* a document whose id is the empty string was transformed: its output has
\* the empty id
C30_Witness ==
    /\ stage = "output"
    /\ src = RoleEmptyId
    /\ Get(tree, "id") = S(<<>>)

====
